---- MODULE Spec2Model ----
(***************************************************************************)
(* Model of the sandboxed file-action subsystem of the Coding Agent:       *)
(*   src/coding_agent/utils/file_operations.py  (path resolver, file       *)
(*                                               operations, text search)  *)
(*   src/coding_agent/actions/file_actions.py   (action adapters)          *)
(*   src/coding_agent/core/reasoning.py         (Analyze, Decide,          *)
(*                                               GenerateSolution)         *)
(*   src/coding_agent/workflow/graph.py         (the workflow graph)       *)
(*                                                                         *)
(* Strings are sequences of one-character strings, so that str.startswith, *)
(* str.replace, str.split and the text-mode newline translation of open()  *)
(* are computed character by character as Python computes them.            *)
(* The platform is POSIX (os.sep = "/", os.linesep = "\n").                *)
(***************************************************************************)
EXTENDS Integers, Sequences, FiniteSets, TLC

VARIABLES
    files,      \* regular files on disk: absolute path -> raw content
    dirs,       \* directories on disk: set of absolute paths
    opened,     \* absolute paths opened (for reading or writing) by the last call
    call,       \* the last operation and its arguments
    ret,        \* the value the last operation returned
    state,      \* the AgentState handed back by the last adapter
    pre,        \* the disk as it was before the last call, and the call before it
    nsteps,     \* number of operations executed so far
    node,       \* the workflow node that runs next
    given,      \* the state value the last workflow step was handed, as it reads now
    trail,      \* the workflow nodes executed so far, in order
    settings,       \* the application settings held by the configuration manager
    model_manager   \* the model manager: its provider and the model it built

vars == <<files, dirs, opened, call, ret, state, pre, nsteps, node, given, trail,
          settings, model_manager>>

----------------------------------------------------------------------------
(* Bounds                                                                  *)

MaxRelLen == 5      \* longest planner-supplied path in the resolver specification
MaxSteps == 2       \* operations per run of the file-operation specifications
MaxContentLen == 3  \* longest initial file content in the edit and line-range specifications
MaxEditLen == 2     \* longest old_string / new_string
MaxLine == 4        \* largest ordinary line number requested
MaxResults == 3     \* largest ordinary max_results of a search
MaxDecisions == 2   \* Decide steps per run of the workflow specification

----------------------------------------------------------------------------
(* Characters and strings                                                  *)

SLASH == "/"
DOT == "."
LF == "\n"
CR == "\r"

\* all strings over alphabet A of length at most n
StringsUpTo(A, n) == UNION {[1..k -> A] : k \in 0..n}

\* str.startswith
StartsWith(s, prefix) ==
    /\ Len(prefix) <= Len(s)
    /\ SubSeq(s, 1, Len(prefix)) = prefix

\* s[i:] with a 1-based start
Drop(s, i) == SubSeq(s, i, Len(s))

\* the substring relation of Python's `in`
Contains(s, sub) ==
    \E i \in 1..(Len(s) - Len(sub) + 1) : SubSeq(s, i, i + Len(sub) - 1) = sub

RECURSIVE SplitOn(_, _)
\* str.split(sep) for a one-character sep: always at least one component
SplitOn(s, sep) ==
    IF \A i \in 1..Len(s) : s[i] # sep
    THEN <<s>>
    ELSE LET i == CHOOSE j \in 1..Len(s) :
                    s[j] = sep /\ \A k \in 1..(j-1) : s[k] # sep
         IN  <<SubSeq(s, 1, i-1)>> \o SplitOn(Drop(s, i+1), sep)

RECURSIVE JoinWith(_, _)
\* sep.join(comps)
JoinWith(comps, sep) ==
    IF comps = <<>> THEN <<>>
    ELSE IF Len(comps) = 1 THEN comps[1]
    ELSE comps[1] \o <<sep>> \o JoinWith(Tail(comps), sep)

----------------------------------------------------------------------------
(* os.path on POSIX                                                        *)

\* a join that keeps the first path when the second is absolute
PathJoin_rerooted(a, b) ==
    IF a = <<>> \/ a[Len(a)] = SLASH \/ StartsWith(b, <<SLASH>>) THEN a \o b
    ELSE a \o <<SLASH>> \o b

\* os.path.join(a, b)
PathJoin(a, b) ==
    IF StartsWith(b, <<SLASH>>) THEN b
    ELSE IF a = <<>> \/ a[Len(a)] = SLASH THEN a \o b
    ELSE a \o <<SLASH>> \o b

RECURSIVE NormComps(_, _, _)
\* the component loop of posixpath.normpath
NormComps(comps, acc, rooted) ==
    IF comps = <<>> THEN acc
    ELSE LET comp == Head(comps)
             rest == Tail(comps)
         IN  IF comp = <<>> \/ comp = <<DOT>>
             THEN NormComps(rest, acc, rooted)
             ELSE IF \/ comp # <<DOT, DOT>>
                     \/ (~rooted /\ acc = <<>>)
                     \/ (acc # <<>> /\ acc[Len(acc)] = <<DOT, DOT>>)
             THEN NormComps(rest, Append(acc, comp), rooted)
             ELSE IF acc # <<>>
             THEN NormComps(rest, SubSeq(acc, 1, Len(acc) - 1), rooted)
             ELSE NormComps(rest, acc, rooted)

\* posixpath.normpath: exactly two leading slashes are kept, three or more
\* collapse to one
NormPath(path) ==
    IF path = <<>> THEN <<DOT>>
    ELSE LET initial == IF ~StartsWith(path, <<SLASH>>) THEN 0
                        ELSE IF StartsWith(path, <<SLASH, SLASH>>)
                                /\ ~StartsWith(path, <<SLASH, SLASH, SLASH>>)
                        THEN 2 ELSE 1
             body == JoinWith(NormComps(SplitOn(path, SLASH), <<>>, initial > 0), SLASH)
             out == [i \in 1..initial |-> SLASH] \o body
         IN  IF out = <<>> THEN <<DOT>> ELSE out

\* the working directory of the process, used by abspath for a relative argument
Cwd == <<SLASH, "w">>

\* os.path.abspath
AbsPath(path) ==
    NormPath(IF StartsWith(path, <<SLASH>>) THEN path ELSE PathJoin(Cwd, path))

\* os.path.dirname
DirName(path) ==
    LET idx == {i \in 1..Len(path) : path[i] = SLASH}
    IN  IF idx = {} THEN <<>>
        ELSE LET i == CHOOSE j \in idx : \A k \in idx : k <= j
                 head == SubSeq(path, 1, i)
             IN  IF \A k \in 1..Len(head) : head[k] = SLASH
                 THEN head
                 ELSE LET last == CHOOSE j \in 1..Len(head) :
                                     head[j] # SLASH /\ \A k \in (j+1)..Len(head) : head[k] = SLASH
                      IN  SubSeq(head, 1, last)

\* the result of _resolve_path: the absolute path it returns, or the
\* ValueError("Attempted path traversal") it raises
Resolved(abs_path) == [raised |-> FALSE, path |-> abs_path]
Traversal == [raised |-> TRUE, path |-> <<>>]

_resolve_path(project_root, relative_path) ==
    LET abs_path == AbsPath(PathJoin(project_root, relative_path))
    IN  IF ~StartsWith(abs_path, AbsPath(project_root))
        THEN Traversal
        ELSE Resolved(abs_path)

\* the directory-tree relation the resolver is meant to guard: `path` is the
\* directory `root` or lies below it
PathComps(path) == SelectSeq(SplitOn(path, SLASH), LAMBDA c : c # <<>>)

InsideRoot(path, root) ==
    LET pc == PathComps(path)
        rc == PathComps(root)
    IN  Len(rc) <= Len(pc) /\ SubSeq(pc, 1, Len(rc)) = rc

----------------------------------------------------------------------------
(* Text-mode file I/O: open(path, "r"/"w", encoding="utf-8")               *)

ERROR == <<"E", "r", "r", "o", "r">>

\* the str(e) of an OSError, kept as one symbol
Errno(name) == <<name>>

RECURSIVE UniversalNewlines(_)
\* reading with newline=None: "\r\n" and a lone "\r" both arrive as "\n"
UniversalNewlines(s) ==
    IF s = <<>> THEN <<>>
    ELSE IF s[1] = CR
    THEN IF Len(s) > 1 /\ s[2] = LF
         THEN <<LF>> \o UniversalNewlines(Drop(s, 3))
         ELSE <<LF>> \o UniversalNewlines(Tail(s))
    ELSE <<s[1]>> \o UniversalNewlines(Tail(s))

\* writing with newline=None: "\n" becomes os.linesep, which is "\n" on POSIX
LineSep == <<LF>>

RECURSIVE TranslateOnWrite(_)
TranslateOnWrite(s) ==
    IF s = <<>> THEN <<>>
    ELSE (IF s[1] = LF THEN LineSep ELSE <<s[1]>>) \o TranslateOnWrite(Tail(s))

RECURSIVE SplitLines(_)
\* file.readlines() on decoded text: lines keep their "\n"
SplitLines(text) ==
    IF text = <<>> THEN <<>>
    ELSE IF \A i \in 1..Len(text) : text[i] # LF THEN <<text>>
    ELSE LET i == CHOOSE j \in 1..Len(text) :
                    text[j] = LF /\ \A k \in 1..(j-1) : text[k] # LF
         IN  <<SubSeq(text, 1, i)>> \o SplitLines(Drop(text, i + 1))

RECURSIVE Flatten(_)
\* ''.join(seq)
Flatten(seq) == IF seq = <<>> THEN <<>> ELSE Head(seq) \o Flatten(Tail(seq))

\* some proper ancestor of `path` is a regular file
AncestorIsFile(disk, path) ==
    \E i \in 2..Len(path) : path[i] = SLASH /\ SubSeq(path, 1, i - 1) \in DOMAIN disk.files

\* the directory `path` and all its ancestors
WithAncestors(path) ==
    {<<SLASH>>, path} \cup {SubSeq(path, 1, i - 1) : i \in {j \in 2..Len(path) : path[j] = SLASH}}

\* the one file whose mode gives the agent no permission to read it
FileLocked == <<SLASH, "p", SLASH, "k", DOT, "p", "y">>
NoReadPermission == {FileLocked}

\* open(path, "r").read(): the decoded text, or the exception raised
OpenRead(disk, path) ==
    IF path \in DOMAIN disk.files /\ path \in NoReadPermission
    THEN [raised |-> "PermissionError"]
    ELSE IF path \in DOMAIN disk.files THEN [text |-> UniversalNewlines(disk.files[path])]
    ELSE IF path \in disk.dirs THEN [raised |-> "IsADirectoryError"]
    ELSE IF AncestorIsFile(disk, path) THEN [raised |-> "NotADirectoryError"]
    ELSE [raised |-> "FileNotFoundError"]

\* os.makedirs(directory, exist_ok=True): the directories afterwards, or the
\* exception raised
MakeDirs(disk, directory) ==
    IF directory \in DOMAIN disk.files THEN [raised |-> "FileExistsError"]
    ELSE IF AncestorIsFile(disk, directory) THEN [raised |-> "NotADirectoryError"]
    ELSE [dirs |-> disk.dirs \cup WithAncestors(directory)]

\* the files after open(path, "w").write(content)
FilesWith(disk, path, content) ==
    [q \in DOMAIN disk.files \cup {path} |->
        IF q = path THEN TranslateOnWrite(content) ELSE disk.files[q]]

\* the disk: the implicit argument of every operation
Now == [files |-> files, dirs |-> dirs]

\* the value an operation hands back together with the disk it leaves
Outcome(r, f, d, o) == [ret |-> r, files |-> f, dirs |-> d, opened |-> o]

NoEffect(disk, r) == Outcome(r, disk.files, disk.dirs, {})

----------------------------------------------------------------------------
(* File operations                                                         *)

\* a read that opens the file for appending and so creates a missing one
read_file_appending(disk, project_root, file_path) ==
    LET resolved == _resolve_path(project_root, file_path)
        abs_file_path == resolved.path
    IN  IF resolved.raised
        THEN NoEffect(disk, ERROR \o <<" reading file ">> \o file_path \o <<": Attempted path traversal">>)
        ELSE LET f == OpenRead(disk, abs_file_path)
             IN  IF "text" \in DOMAIN f
                 THEN Outcome(f.text, disk.files, disk.dirs, {abs_file_path})
                 ELSE IF f.raised = "FileNotFoundError" /\ DirName(abs_file_path) \in disk.dirs
                 THEN Outcome(<<>>, FilesWith(disk, abs_file_path, <<>>), disk.dirs, {abs_file_path})
                 ELSE IF f.raised = "FileNotFoundError"
                 THEN NoEffect(disk, ERROR \o <<" reading file: File not found at ">> \o file_path)
                 ELSE NoEffect(disk, ERROR \o <<" reading file ">> \o file_path \o <<": ">> \o Errno(f.raised))

read_file(disk, project_root, file_path) ==
    LET resolved == _resolve_path(project_root, file_path)
        abs_file_path == resolved.path
    IN  IF resolved.raised
        THEN NoEffect(disk, ERROR \o <<" reading file ">> \o file_path \o <<": Attempted path traversal">>)
        ELSE LET f == OpenRead(disk, abs_file_path)
             IN  IF "text" \in DOMAIN f
                 THEN Outcome(f.text, disk.files, disk.dirs, {abs_file_path})
                 ELSE IF f.raised = "FileNotFoundError"
                 THEN NoEffect(disk, ERROR \o <<" reading file: File not found at ">> \o file_path)
                 ELSE NoEffect(disk, ERROR \o <<" reading file ">> \o file_path \o <<": ">> \o Errno(f.raised))

write_file(disk, project_root, file_path, content) ==
    LET resolved == _resolve_path(project_root, file_path)
        abs_file_path == resolved.path
    IN  IF resolved.raised
        THEN NoEffect(disk, ERROR \o <<" writing to file ">> \o file_path \o <<": Attempted path traversal">>)
        ELSE LET directory == DirName(abs_file_path)
                 made == IF directory # <<>> THEN MakeDirs(disk, directory) ELSE [dirs |-> disk.dirs]
             IN  IF "raised" \in DOMAIN made
                 THEN NoEffect(disk, ERROR \o <<" writing to file ">> \o file_path \o <<": ">> \o Errno(made.raised))
                 ELSE IF abs_file_path \in made.dirs
                 THEN Outcome(ERROR \o <<" writing to file ">> \o file_path \o <<": ">> \o Errno("IsADirectoryError"),
                              disk.files, made.dirs, {})
                 ELSE Outcome(<<"Successfully wrote to ">> \o file_path,
                              FilesWith(disk, abs_file_path, content), made.dirs, {abs_file_path})

\* a replace that stops after the first occurrence
str_replace_first_only(s, old, new) ==
    IF old = <<>> THEN new \o s
    ELSE IF ~Contains(s, old) THEN s
    ELSE LET i == CHOOSE j \in 1..Len(s) :
                    /\ StartsWith(Drop(s, j), old)
                    /\ \A k \in 1..(j-1) : ~StartsWith(Drop(s, k), old)
         IN  SubSeq(s, 1, i - 1) \o new \o Drop(s, i + Len(old))

\* str.replace(old, new)
RECURSIVE str_replace(_, _, _)
str_replace(s, old, new) ==
    IF old = <<>>
    THEN IF s = <<>> THEN new ELSE new \o <<s[1]>> \o str_replace(Tail(s), old, new)
    ELSE IF Len(s) < Len(old) THEN s
    ELSE IF StartsWith(s, old)
    THEN new \o str_replace(Drop(s, Len(old) + 1), old, new)
    ELSE <<s[1]>> \o str_replace(Tail(s), old, new)

\* an edit that takes a file it could not read for an empty one
edit_file_creating(disk, project_root, file_path, old_string, new_string) ==
    LET rd == read_file(disk, project_root, file_path)
        content == IF StartsWith(rd.ret, ERROR) THEN <<>> ELSE rd.ret
        new_content == str_replace(content, old_string, new_string)
        wr == write_file(disk, project_root, file_path, new_content)
    IN  Outcome(wr.ret, wr.files, wr.dirs, rd.opened \cup wr.opened)

edit_file(disk, project_root, file_path, old_string, new_string) ==
    LET rd == read_file(disk, project_root, file_path)
        content == rd.ret
    IN  IF ~StartsWith(content, ERROR)
        THEN LET new_content == str_replace(content, old_string, new_string)
                 wr == write_file(disk, project_root, file_path, new_content)
             IN  Outcome(wr.ret, wr.files, wr.dirs, rd.opened \cup wr.opened)
        ELSE Outcome(content, disk.files, disk.dirs, rd.opened)

Min(a, b) == IF a <= b THEN a ELSE b

\* the three range errors of read_file_lines
ErrLineNumbers == ERROR \o <<" reading file lines: Line numbers must be 1 or greater.">>
ErrFromAfterTo == ERROR \o <<" reading file lines: from_line cannot be greater than to_line">>
ErrExceedsLength == ERROR \o <<" reading file lines: from_line exceeds file length">>

\* a length check that lets the line after the last one through
ExceedsLength_off_by_one(from_line, total_lines) == from_line > total_lines + 1

\* the check that the requested lines exist
ExceedsLength(from_line, total_lines) == from_line > total_lines

\* a slice that leaves out the last requested line
SelectLines_exclusive_end(lines, from_line, to_line) ==
    LET actual_to_line == Min(to_line, Len(lines))
    IN  Flatten(SubSeq(lines, from_line, actual_to_line - 1))

\* lines[from_line-1:actual_to_line] joined, to_line clamped to the file length
SelectLines(lines, from_line, to_line) ==
    LET actual_to_line == Min(to_line, Len(lines))
        selected_lines == SubSeq(lines, from_line, actual_to_line)
    IN  Flatten(selected_lines)

read_file_lines(disk, project_root, file_path, from_line, to_line) ==
    LET resolved == _resolve_path(project_root, file_path)
        abs_file_path == resolved.path
    IN  IF resolved.raised
        THEN NoEffect(disk, ERROR \o <<" reading file lines ">> \o file_path \o <<": Attempted path traversal">>)
        ELSE IF from_line < 1 \/ to_line < 1
        THEN NoEffect(disk, ErrLineNumbers)
        ELSE IF from_line > to_line
        THEN NoEffect(disk, ErrFromAfterTo)
        ELSE LET f == OpenRead(disk, abs_file_path)
             IN  IF "raised" \in DOMAIN f
                 THEN IF f.raised = "FileNotFoundError"
                      THEN NoEffect(disk, ERROR \o <<" reading file lines: File not found at ">> \o file_path)
                      ELSE NoEffect(disk, ERROR \o <<" reading file lines ">> \o file_path \o <<": ">> \o Errno(f.raised))
                 ELSE LET lines == SplitLines(f.text)
                          total_lines == Len(lines)
                      IN  IF ExceedsLength(from_line, total_lines)
                          THEN Outcome(ErrExceedsLength, disk.files, disk.dirs, {abs_file_path})
                          ELSE Outcome(SelectLines(lines, from_line, to_line),
                                       disk.files, disk.dirs, {abs_file_path})

\* the name of a directory entry: the last component of its path
BaseName(path) == LET c == PathComps(path) IN c[Len(c)]

\* a listing that also names the directory itself and its parent
Entries_with_dots(disk, abs) ==
    {<<DOT>>, <<DOT, DOT>>}
        \cup {BaseName(q) : q \in {x \in (DOMAIN disk.files \cup disk.dirs) :
                                      x # <<SLASH>> /\ x # abs /\ DirName(x) = abs}}

\* the entries os.listdir finds in directory `abs`
Entries(disk, abs) ==
    {BaseName(q) : q \in {x \in (DOMAIN disk.files \cup disk.dirs) :
                              x # <<SLASH>> /\ x # abs /\ DirName(x) = abs}}

\* every order in which os.listdir may hand back a set of names
Orderings(S) ==
    {s \in [1..Cardinality(S) -> S] : \A i, j \in 1..Cardinality(S) : i # j => s[i] # s[j]}

\* `listing` is the list os.listdir returns, in the order the OS chose
list_directory(disk, project_root, directory_path, listing) ==
    LET resolved == _resolve_path(project_root, directory_path)
        abs_dir_path == resolved.path
    IN  IF resolved.raised
        THEN NoEffect(disk, <<ERROR \o <<" listing directory ">> \o directory_path \o <<": Attempted path traversal">>>>)
        ELSE IF abs_dir_path \in disk.dirs
        THEN NoEffect(disk, listing)
        ELSE IF abs_dir_path \in DOMAIN disk.files \/ AncestorIsFile(disk, abs_dir_path)
        THEN NoEffect(disk, <<ERROR \o <<" listing directory ">> \o directory_path \o <<": ">> \o Errno("NotADirectoryError")>>)
        ELSE NoEffect(disk, <<ERROR \o <<" listing directory: Directory not found at ">> \o directory_path>>)

\* the listings os.listdir may produce for the resolved directory
Listings(disk, project_root, directory_path) ==
    LET resolved == _resolve_path(project_root, directory_path)
    IN  IF ~resolved.raised /\ resolved.path \in disk.dirs
        THEN Orderings(Entries(disk, resolved.path))
        ELSE {<<>>}

----------------------------------------------------------------------------
(* Search engine                                                           *)

\* str.lower on the letters the model uses
Lower(c) ==
    IF c = "A" THEN "a" ELSE IF c = "B" THEN "b" ELSE IF c = "F" THEN "f"
    ELSE IF c = "P" THEN "p" ELSE IF c = "Y" THEN "y" ELSE c

LowerStr(s) == [i \in 1..Len(s) |-> Lower(s[i])]

\* the default file_extensions of search_text
DefaultExtensions == {
    <<DOT, "p", "y">>, <<DOT, "j", "s">>, <<DOT, "t", "s">>, <<DOT, "j", "a", "v", "a">>,
    <<DOT, "c">>, <<DOT, "c", "p", "p">>, <<DOT, "h">>, <<DOT, "g", "o">>, <<DOT, "r", "s">>,
    <<DOT, "p", "h", "p">>, <<DOT, "r", "b">>, <<DOT, "m", "d">>, <<DOT, "t", "x", "t">>,
    <<DOT, "j", "s", "o", "n">>, <<DOT, "y", "a", "m", "l">>, <<DOT, "y", "m", "l">>,
    <<DOT, "x", "m", "l">>, <<DOT, "h", "t", "m", "l">>, <<DOT, "c", "s", "s">>,
    <<DOT, "s", "q", "l">>, <<DOT, "s", "h">>, <<DOT, "b", "a", "t">> }

\* directory names os.walk is told not to descend into
SkippedDirNames == {
    <<"_", "_", "p", "y", "c", "a", "c", "h", "e", "_", "_">>,
    <<"n", "o", "d", "e", "_", "m", "o", "d", "u", "l", "e", "s">>,
    <<"b", "u", "i", "l", "d">>, <<"d", "i", "s", "t">>, <<"t", "a", "r", "g", "e", "t">> }

\* os.path.splitext(name)[1]: from the last dot on, leading dots not counted
SplitExt(name) ==
    LET lead == CHOOSE k \in 0..Len(name) :
                    /\ \A i \in 1..k : name[i] = DOT
                    /\ (k < Len(name) => name[k + 1] # DOT)
        dots == {i \in (lead + 1)..Len(name) : name[i] = DOT}
    IN  IF dots = {} THEN <<>>
        ELSE Drop(name, CHOOSE i \in dots : \A j \in dots : j <= i)

\* a compiled pattern: one atom per character, or the re.error of re.compile
Lit(c) == [any |-> FALSE, ch |-> c]
AnyChar == [any |-> TRUE, ch |-> DOT]

\* re.compile(re.escape(search_term), flags): every character stands for itself
CompileLiteral(search_term, case_sensitive) ==
    [invalid |-> FALSE, ignorecase |-> ~case_sensitive,
     atoms |-> [i \in 1..Len(search_term) |-> Lit(search_term[i])]]

\* a compiler that takes an unclosed "(" for the character itself
CompileRegex_lenient(search_term, case_sensitive) ==
    [invalid |-> FALSE, ignorecase |-> ~case_sensitive,
     atoms |-> [i \in 1..Len(search_term) |->
                   IF search_term[i] = DOT THEN AnyChar ELSE Lit(search_term[i])]]

\* re.compile(search_term, flags) on terms made of letters, "." and "(":
\* an unclosed "(" does not compile
CompileRegex(search_term, case_sensitive) ==
    IF "(" \in {search_term[i] : i \in 1..Len(search_term)}
    THEN [invalid |-> TRUE, ignorecase |-> ~case_sensitive, atoms |-> <<>>]
    ELSE [invalid |-> FALSE, ignorecase |-> ~case_sensitive,
          atoms |-> [i \in 1..Len(search_term) |->
                        IF search_term[i] = DOT THEN AnyChar ELSE Lit(search_term[i])]]

\* a literal search that forgets re.escape
PreparePattern_unescaped(search_term, case_sensitive, regex_mode) ==
    CompileRegex(search_term, case_sensitive)

\* the "Prepare search pattern" block of search_text
PreparePattern(search_term, case_sensitive, regex_mode) ==
    IF regex_mode
    THEN CompileRegex(search_term, case_sensitive)
    ELSE CompileLiteral(search_term, case_sensitive)

AtomMatches(atom, ignorecase, c) ==
    IF atom.any THEN c # LF
    ELSE IF ignorecase THEN Lower(atom.ch) = Lower(c)
    ELSE atom.ch = c

\* pattern.match(line, pos): the pattern matches at 0-based offset pos
MatchesAt(pattern, line, pos) ==
    /\ pos + Len(pattern.atoms) <= Len(line)
    /\ \A j \in 1..Len(pattern.atoms) :
          AtomMatches(pattern.atoms[j], pattern.ignorecase, line[pos + j])

RECURSIVE FindIter(_, _, _)
\* pattern.finditer(line) from offset pos on: leftmost matches, not overlapping;
\* after an empty match the scan moves on by one character
FindIter(pattern, line, pos) ==
    IF pos > Len(line) THEN <<>>
    ELSE IF MatchesAt(pattern, line, pos)
    THEN LET stop == pos + Len(pattern.atoms)
         IN  <<[start |-> pos, end |-> stop, group |-> SubSeq(line, pos + 1, stop)]>>
                 \o FindIter(pattern, line, IF stop = pos THEN pos + 1 ELSE stop)
    ELSE FindIter(pattern, line, pos + 1)

RECURSIVE RStripNewlines(_)
\* line.rstrip('\n\r')
RStripNewlines(line) ==
    IF line # <<>> /\ line[Len(line)] \in {LF, CR}
    THEN RStripNewlines(SubSeq(line, 1, Len(line) - 1))
    ELSE line

\* os.path.relpath(file_path, project_root) for a file below the root
RelPath(file_path, project_root) ==
    LET root == AbsPath(project_root)
    IN  IF root = <<SLASH>> THEN Drop(file_path, 2) ELSE Drop(file_path, Len(root) + 2)

\* a walk that also descends into hidden and build directories
Pruned_nothing(name) == FALSE

\* the directories os.walk is told to skip
Pruned(name) == StartsWith(name, <<DOT>>) \/ name \in SkippedDirNames

\* the files os.walk reaches from the root: no directory on the way is pruned
Walked(disk, project_root) ==
    LET root == AbsPath(project_root)
    IN  {f \in DOMAIN disk.files :
            /\ InsideRoot(f, root) /\ root \in disk.dirs
            /\ \A i \in (Len(PathComps(root)) + 1)..(Len(PathComps(f)) - 1) :
                  ~Pruned(PathComps(f)[i])}

\* the walked files that pass the hidden-file and extension filters
Candidates(disk, project_root, file_extensions) ==
    {f \in Walked(disk, project_root) :
        /\ ~StartsWith(BaseName(f), <<DOT>>)
        /\ SplitExt(LowerStr(BaseName(f))) \in file_extensions}

\* the files under directory d
Under(d, S) == {f \in S : InsideRoot(f, d)}

\* the orders in which a top-down os.walk can come across the files of S:
\* a directory's own files before those of its subdirectories, and each
\* subtree in one piece
WalkOrders(S) ==
    {s \in Orderings(S) :
        /\ \A i, j \in 1..Len(s) :
              (DirName(s[i]) # DirName(s[j]) /\ InsideRoot(s[j], DirName(s[i]))) => i < j
        /\ \A i, j, k \in 1..Len(s) :
              (i < j /\ j < k /\ InsideRoot(s[k], DirName(s[i]))) => InsideRoot(s[j], DirName(s[i]))}

\* a limit test that lets one match too many through
LimitReached_strict(total_matches, max_results) == total_matches > max_results

\* results['total_matches'] >= max_results
LimitReached(total_matches, max_results) == total_matches >= max_results

RECURSIVE AddMatches(_, _, _, _, _, _)
\* the loop over the matches of one line
AddMatches(results, matches, relative_path, line_num, line, max_results) ==
    IF results.stopped \/ matches = <<>> THEN results
    ELSE IF LimitReached(results.total_matches, max_results)
    THEN [results EXCEPT !.error = <<"Search stopped at results limit">>, !.stopped = TRUE]
    ELSE LET match == Head(matches)
             record == [file_path |-> relative_path,
                        line_number |-> line_num,
                        line_content |-> RStripNewlines(line),
                        match_start |-> match.start,
                        match_end |-> match.end,
                        matched_text |-> match.group]
         IN  AddMatches([results EXCEPT !.results = Append(@, record),
                                        !.total_matches = @ + 1],
                        Tail(matches), relative_path, line_num, line, max_results)

RECURSIVE ScanLines(_, _, _, _, _, _)
\* the loop over the lines of one file
ScanLines(results, lines, line_num, relative_path, pattern, max_results) ==
    IF results.stopped \/ lines = <<>> THEN results
    ELSE ScanLines(AddMatches(results, FindIter(pattern, Head(lines), 0),
                              relative_path, line_num, Head(lines), max_results),
                   Tail(lines), line_num + 1, relative_path, pattern, max_results)

RECURSIVE ScanFiles(_, _, _, _, _, _)
\* the loop over the files of the walk, in the order the walk meets them
ScanFiles(disk, results, order, project_root, pattern, max_results) ==
    IF results.stopped \/ order = <<>> THEN results
    ELSE LET file_path == Head(order)
             counted == [results EXCEPT !.files_searched = @ + 1]
             f == OpenRead(disk, file_path)
         IN  IF "raised" \in DOMAIN f
             THEN \* the file is counted, open raises, the except clause goes on
                  ScanFiles(disk, counted, Tail(order), project_root, pattern, max_results)
             ELSE ScanFiles(disk, ScanLines(counted, SplitLines(f.text), 1,
                                            RelPath(file_path, project_root),
                                            pattern, max_results),
                            Tail(order), project_root, pattern, max_results)

\* Python's None: a value that is no string of characters
None == <<"None">>

\* the dictionary search_text returns
SearchResults(r) ==
    [total_matches |-> r.total_matches, files_searched |-> r.files_searched,
     results |-> r.results, error |-> r.error]

\* `extensions` is file_extensions with its default filled in, `order` the
\* order in which os.walk meets the files that pass the filters
search_text(disk, project_root, search_term, extensions, case_sensitive, regex_mode, max_results, order) ==
    LET results == [total_matches |-> 0, files_searched |-> 0, results |-> <<>>,
                    error |-> None, stopped |-> FALSE]
        pattern == PreparePattern(search_term, case_sensitive, regex_mode)
    IN  IF pattern.invalid
        THEN NoEffect(disk, SearchResults([results EXCEPT !.error = <<"Invalid regex pattern">>]))
        ELSE LET done == ScanFiles(disk, results, order, project_root, pattern, max_results)
             IN  Outcome(SearchResults(done), disk.files, disk.dirs,
                         {order[i] : i \in 1..done.files_searched} \ NoReadPermission)

----------------------------------------------------------------------------
(* Action adapters                                                         *)

\* values of the planner's parameter mapping, tagged with their Python type
StrVal(s) == [t |-> "str", v |-> s]
IntVal(n) == [t |-> "int", v |-> n]
BoolVal(b) == [t |-> "bool", v |-> b]
NoneVal == [t |-> "none", v |-> None]

\* dict.get(key, default)
Get(mapping, key, default) == IF key \in DOMAIN mapping THEN mapping[key] ELSE default

\* Python's `not value`
Falsy(value) ==
    \/ value.t = "none"
    \/ value.t = "str" /\ value.v = <<>>
    \/ value.t = "int" /\ value.v = 0
    \/ value.t = "bool" /\ ~value.v

Digit(d) == <<"0", "1", "2", "3", "4", "5", "6", "7", "8", "9">>[d + 1]

RECURSIVE NatToStr(_)
NatToStr(n) == IF n < 10 THEN <<Digit(n)>> ELSE NatToStr(n \div 10) \o <<Digit(n % 10)>>

\* str(n)
IntToStr(n) == IF n < 0 THEN <<"-">> \o NatToStr(0 - n) ELSE NatToStr(n)

\* the text an f-string puts in for a value
Format(value) ==
    IF value.t = "str" THEN value.v
    ELSE IF value.t = "int" THEN IntToStr(value.v)
    ELSE IF value.t = "bool" THEN (IF value.v THEN <<"True">> ELSE <<"False">>)
    ELSE <<"None">>

\* int(value): the integer, or the ValueError / TypeError raised
IsDigits(s) == s # <<>> /\ \A i \in 1..Len(s) : s[i] \in {Digit(d) : d \in 0..9}

RECURSIVE DigitsToNat(_)
DigitsToNat(s) ==
    IF s = <<>> THEN 0
    ELSE 10 * DigitsToNat(SubSeq(s, 1, Len(s) - 1))
            + (CHOOSE d \in 0..9 : Digit(d) = s[Len(s)])

ToInt(value) ==
    IF value.t = "int" THEN [raised |-> FALSE, v |-> value.v]
    ELSE IF value.t = "bool" THEN [raised |-> FALSE, v |-> IF value.v THEN 1 ELSE 0]
    ELSE IF value.t = "str" /\ IsDigits(value.v) THEN [raised |-> FALSE, v |-> DigitsToNat(value.v)]
    ELSE IF value.t = "str" /\ Len(value.v) > 1 /\ value.v[1] = "-" /\ IsDigits(Tail(value.v))
    THEN [raised |-> FALSE, v |-> 0 - DigitsToNat(Tail(value.v))]
    ELSE [raised |-> TRUE, v |-> 0]

\* mapping[key] = value on a dictionary that was emptied first
Put_cleared(mapping, key, value) == [k \in {key} |-> value]

\* mapping[key] = value on a dictionary
Put(mapping, key, value) ==
    [k \in DOMAIN mapping \cup {key} |-> IF k = key THEN value ELSE mapping[k]]

\* what an adapter hands back: the updated state and its effect on the disk
Adapted(updated_state, out) ==
    [state |-> updated_state, files |-> out.files, dirs |-> out.dirs, opened |-> out.opened]

\* a refusal that also forgets the action that was chosen
Rejected_forgetting(disk, st, message) ==
    Adapted([st EXCEPT !.action_output = message, !.next_action = NoneVal],
            NoEffect(disk, None))

\* an adapter that returns before it calls any file operation
Rejected(disk, st, message) ==
    Adapted([st EXCEPT !.action_output = message], NoEffect(disk, None))

MissingParameter(parameter, action) ==
    ERROR \o <<": ">> \o parameter \o <<" parameter is missing for ">> \o action \o <<" action.">>

read_file_action(disk, st) ==
    LET action_input == st.action_input
        project_root == st.project_root
        file_path == Get(action_input, "file_path", StrVal(<<>>))
    IN  IF Falsy(file_path)
        THEN Rejected(disk, st, MissingParameter(<<"file_path">>, <<"read_file">>))
        ELSE LET out == read_file(disk, project_root, file_path.v)
                 result == out.ret
                 stored == [st EXCEPT !.files_content = Put(@, file_path.v, result)]
             IN  IF StartsWith(result, ERROR)
                 THEN Adapted([stored EXCEPT !.action_output =
                                  <<"Read file ">> \o file_path.v \o <<": Failed - ">> \o result], out)
                 ELSE Adapted([stored EXCEPT !.action_output =
                                  <<"Successfully read content of ">> \o file_path.v \o <<".">>], out)

write_file_action(disk, st) ==
    LET action_input == st.action_input
        project_root == st.project_root
        file_path == Get(action_input, "file_path", StrVal(<<>>))
        content == Get(action_input, "content", StrVal(<<>>))
    IN  IF Falsy(file_path)
        THEN Rejected(disk, st, MissingParameter(<<"file_path">>, <<"write_file">>))
        ELSE LET out == write_file(disk, project_root, file_path.v, content.v)
                 result == out.ret
             IN  Adapted([st EXCEPT
                            !.files_content =
                                Put(@, file_path.v,
                                    IF ~StartsWith(result, ERROR) THEN content.v
                                    ELSE ERROR \o <<" writing: ">> \o result),
                            !.action_output = <<"Write file ">> \o file_path.v \o <<": ">> \o result],
                         out)

\* "Could not read file content"
CouldNotReadPhrase ==
    <<"C", "o", "u", "l", "d", " ", "n", "o", "t", " ", "r", "e", "a", "d", " ",
      "f", "i", "l", "e", " ", "c", "o", "n", "t", "e", "n", "t">>

\* the end of a successful edit: `again` is the file read again
EditStored(told, file_path, out, again) ==
    LET new_content == again.ret
    IN  Adapted([told EXCEPT !.files_content =
                    Put(@, file_path,
                        IF ~StartsWith(new_content, ERROR) THEN new_content
                        ELSE ERROR \o <<" re-reading after edit: ">> \o new_content)],
                [out EXCEPT !.opened = @ \cup again.opened])

\* what edit_file_action does once edit_file has returned `out`
EditReported(st, file_path, out) ==
    LET result == out.ret
        told == [st EXCEPT !.action_output =
                    <<"Edit file ">> \o file_path \o <<": ">> \o result]
    IN  IF StartsWith(result, ERROR)
        THEN IF ~Contains(result, CouldNotReadPhrase)
             THEN Adapted([told EXCEPT !.files_content =
                              Put(@, file_path, ERROR \o <<" editing: ">> \o result)], out)
             ELSE Adapted(told, out)
        ELSE \* the file is read again, from the disk the edit left
             EditStored(told, file_path, out,
                        read_file([files |-> out.files, dirs |-> out.dirs],
                                  st.project_root, file_path))

edit_file_action(disk, st) ==
    LET action_input == st.action_input
        project_root == st.project_root
        file_path == Get(action_input, "file_path", StrVal(<<>>))
        old_string == Get(action_input, "old_string", StrVal(<<>>))
        new_string == Get(action_input, "new_string", StrVal(<<>>))
    IN  IF Falsy(file_path)
        THEN Rejected(disk, st, MissingParameter(<<"file_path">>, <<"edit_file">>))
        ELSE EditReported(st, file_path.v,
                          edit_file(disk, project_root, file_path.v, old_string.v, new_string.v))

\* `listing` is the list os.listdir returns, in the order the OS chose
list_directory_action(disk, st, listing) ==
    LET action_input == st.action_input
        project_root == st.project_root
        directory_path == Get(action_input, "directory_path", StrVal(<<DOT>>))
        out == list_directory(disk, project_root, directory_path.v, listing)
        result == out.ret
        output_message ==
            IF Len(result) > 0 /\ StartsWith(result[1], ERROR)
            THEN <<"List directory ">> \o directory_path.v \o <<": Failed - ">> \o result[1]
            ELSE <<"List directory '">> \o directory_path.v \o <<"': ">>
                    \o (IF result # <<>> THEN JoinWith(result, ", ") ELSE <<"Empty directory">>)
    IN  Adapted([st EXCEPT !.action_output = output_message], out)

\* f"{file_path}:{from_line}-{to_line}"
LinesKey(file_path, from_line, to_line) ==
    file_path \o <<":">> \o IntToStr(from_line) \o <<"-">> \o IntToStr(to_line)

read_file_lines_action(disk, st) ==
    LET action_input == st.action_input
        project_root == st.project_root
        file_path == Get(action_input, "file_path", StrVal(<<>>))
        from_line == Get(action_input, "from_line", NoneVal)
        to_line == Get(action_input, "to_line", NoneVal)
    IN  IF Falsy(file_path)
        THEN Rejected(disk, st, MissingParameter(<<"file_path">>, <<"read_file_lines">>))
        ELSE IF from_line.t = "none" \/ to_line.t = "none"
        THEN Rejected(disk, st, ERROR \o <<": from_line and to_line parameters are required for read_file_lines action.">>)
        ELSE IF ToInt(from_line).raised \/ ToInt(to_line).raised
        THEN Rejected(disk, st, ERROR \o <<": from_line and to_line must be valid integers.">>)
        ELSE LET from_int == ToInt(from_line).v
                 to_int == ToInt(to_line).v
                 out == read_file_lines(disk, project_root, file_path.v, from_int, to_int)
                 result == out.ret
                 content_key == LinesKey(file_path.v, from_int, to_int)
                 range == file_path.v \o <<":">> \o IntToStr(from_int) \o <<"-">> \o IntToStr(to_int)
                 stored == [st EXCEPT !.files_content = Put(@, content_key, result)]
             IN  IF StartsWith(result, ERROR)
                 THEN Adapted([stored EXCEPT !.action_output =
                                  <<"Read file lines ">> \o range \o <<": Failed - ">> \o result], out)
                 ELSE Adapted([stored EXCEPT !.action_output =
                                  <<"Successfully read lines ">> \o IntToStr(from_int) \o <<"-">>
                                      \o IntToStr(to_int) \o <<" from ">> \o file_path.v \o <<".">>], out)

\* f"search_results:{search_term}"
SearchKey(search_term) ==
    <<"s", "e", "a", "r", "c", "h", "_", "r", "e", "s", "u", "l", "t", "s", ":">> \o search_term

RECURSIVE FileMatches(_, _)
\* the file_matches dictionary: the files of the results in order of first
\* appearance, each with the line numbers of its matches
FileMatches(results, acc) ==
    IF results = <<>> THEN acc
    ELSE LET r == Head(results)
             known == {i \in 1..Len(acc) : acc[i].file_path = r.file_path}
         IN  IF known = {}
             THEN FileMatches(Tail(results),
                              Append(acc, [file_path |-> r.file_path, line_numbers |-> <<r.line_number>>]))
             ELSE LET i == CHOOSE k \in known : TRUE
                  IN  FileMatches(Tail(results),
                                  [acc EXCEPT ![i].line_numbers = Append(@, r.line_number)])

\* the "(lines: ...)" text of one file of the summary
LinesStr(line_numbers) ==
    LET strs == [i \in 1..Len(line_numbers) |-> IntToStr(line_numbers[i])]
    IN  IF Len(line_numbers) <= 3
        THEN JoinWith(strs, ", ")
        ELSE JoinWith(SubSeq(strs, 1, 3), ", ") \o <<" and ">>
                \o IntToStr(Len(line_numbers) - 3) \o <<" more">>

\* the bullet character U+2022 that starts a line of the summary
BULLET == "(U+2022)"

RECURSIVE SummaryOfFiles(_)
SummaryOfFiles(file_matches) ==
    IF file_matches = <<>> THEN <<>>
    ELSE <<LF, " ", " ", BULLET, " ">> \o Head(file_matches).file_path \o <<" (lines: ">>
            \o LinesStr(Head(file_matches).line_numbers) \o <<")">>
            \o SummaryOfFiles(Tail(file_matches))

\* the human-readable summary of a search that reported no error
SearchSummary(search_term, search_results) ==
    LET head == <<"Search for '">> \o search_term \o <<"' completed:", LF, BULLET, " ">>
                    \o IntToStr(search_results.total_matches) \o <<" matches found", LF, BULLET, " ">>
                    \o IntToStr(search_results.files_searched) \o <<" files searched">>
        file_matches == FileMatches(search_results.results, <<>>)
    IN  IF search_results.total_matches > 0
        THEN head \o <<LF, LF, "Matches found in:">>
                \o SummaryOfFiles(SubSeq(file_matches, 1, Min(10, Len(file_matches))))
                \o (IF Len(file_matches) > 10
                    THEN <<LF, " ", " ", BULLET, " ... and ">> \o IntToStr(Len(file_matches) - 10) \o <<" more files">>
                    ELSE <<>>)
        ELSE head

\* the extensions the search uses: the list given, or the default
ExtensionsOf(action_input) ==
    IF "file_extensions" \in DOMAIN action_input /\ action_input["file_extensions"].t # "none"
    THEN action_input["file_extensions"].v
    ELSE DefaultExtensions

\* `order` is the order in which os.walk meets the files that pass the filters
search_text_action(disk, st, order) ==
    LET action_input == st.action_input
        project_root == st.project_root
        search_term == Get(action_input, "search_term", StrVal(<<>>))
    IN  IF Falsy(search_term)
        THEN Rejected(disk, st, MissingParameter(<<"search_term">>, <<"search_text">>))
        ELSE LET case_sensitive == Get(action_input, "case_sensitive", BoolVal(FALSE))
                 regex_mode == Get(action_input, "regex_mode", BoolVal(FALSE))
                 max_results == Get(action_input, "max_results", IntVal(100))
                 out == search_text(disk, project_root, search_term.v, ExtensionsOf(action_input),
                                    ~Falsy(case_sensitive), ~Falsy(regex_mode), max_results.v, order)
                 search_results == out.ret
                 stored == [st EXCEPT !.files_content =
                               Put(@, SearchKey(search_term.v), search_results)]
             IN  IF search_results.error # None /\ search_results.error # <<>>
                 THEN Adapted([stored EXCEPT !.action_output =
                                  <<"Search for '">> \o search_term.v \o <<"': Failed - ">>
                                      \o search_results.error], out)
                 ELSE Adapted([stored EXCEPT !.action_output =
                                  SearchSummary(search_term.v, search_results)], out)

----------------------------------------------------------------------------
(* Reasoning steps: Analyze, Decide, GenerateSolution                      *)

\* values JSON adds to the ones of action_input: a list and an object
ListVal(items) == [t |-> "list", v |-> items]
DictVal(mapping) == [t |-> "dict", v |-> mapping]

\* the characters str.strip() removes
Whitespace == {" ", LF, CR}

RECURSIVE LStrip(_)
LStrip(s) == IF s # <<>> /\ Head(s) \in Whitespace THEN LStrip(Tail(s)) ELSE s

RECURSIVE RStrip(_)
RStrip(s) ==
    IF s # <<>> /\ s[Len(s)] \in Whitespace THEN RStrip(SubSeq(s, 1, Len(s) - 1)) ELSE s

\* str.strip()
Strip(s) == RStrip(LStrip(s))

\* str.split(sep, 1): the text before the first sep and the text after it,
\* or the text alone when sep does not occur
SplitFirst(s, sep) ==
    IF \A i \in 1..Len(s) : s[i] # sep
    THEN <<s>>
    ELSE LET i == CHOOSE j \in 1..Len(s) : s[j] = sep /\ \A k \in 1..(j-1) : s[k] # sep
         IN  <<SubSeq(s, 1, i - 1), Drop(s, i + 1)>>

\* the markers the fallback parser looks for, each one element of a text
ActionMarker == "Action:"
ReasoningMarker == "Reasoning:"

\* the action names, as the strings the planner writes
NameFinish == <<"f", "i", "n", "i", "s", "h">>
NameReadFile == <<"r", "e", "a", "d", "_", "f", "i", "l", "e">>
NameReadFileLines == NameReadFile \o <<"_", "l", "i", "n", "e", "s">>
NameWriteFile == <<"w", "r", "i", "t", "e", "_", "f", "i", "l", "e">>
NameEditFile == <<"e", "d", "i", "t", "_", "f", "i", "l", "e">>
NameListDirectory == <<"l", "i", "s", "t", "_", "d", "i", "r", "e", "c", "t", "o", "r", "y">>
NameSearchText == <<"s", "e", "a", "r", "c", "h", "_", "t", "e", "x", "t">>

\* A response of the planner is its content: either a text that is JSON
\* (json |-> TRUE, value the value it denotes, fenced whether it is wrapped in
\* ```json ... ```), or a text that is not (json |-> FALSE, text its
\* characters).

\* lines 199-203: the code fence is cut off
StripFence(content) == IF content.json THEN [content EXCEPT !.fenced = FALSE] ELSE content

\* json.loads: the value, or JSONDecodeError
JsonLoads(content) ==
    IF content.json /\ ~content.fenced
    THEN [raised |-> FALSE, value |-> content.value]
    ELSE [raised |-> TRUE, value |-> NoneVal]

\* the dictionary {}
EmptyDict == [k \in {} |-> NoneVal]

\* action_input as the state keeps it: a mapping as it is, any other value tagged
Unwrap(value) == IF value.t = "dict" THEN value.v ELSE value

CouldNotParse == <<"Could not parse action from LLM response.">>
NoReasoning == <<"No reasoning provided.">>

\* a Decide that also drops the plan
Decided_replanned(st, action_name, action_input, reasoning) ==
    [st EXCEPT !.next_action = action_name,
               !.action_input = Unwrap(action_input),
               !.current_plan = <<>>,
               !.thought_process =
                    @ \o <<LF, LF, "Next Action Reasoning (">> \o Format(action_name)
                      \o <<"): ">> \o Format(reasoning)]

\* lines 239-245: the state Decide returns
Decided(st, action_name, action_input, reasoning) ==
    [st EXCEPT !.next_action = action_name,
               !.action_input = Unwrap(action_input),
               !.thought_process =
                    @ \o <<LF, LF, "Next Action Reasoning (">> \o Format(action_name)
                      \o <<"): ">> \o Format(reasoning)]

\* lines 224-233: the fallback for a response that is not JSON
DecidedFromText(st, text) ==
    LET action_lines == SplitFirst(text, ActionMarker)
        reasoning_lines == SplitFirst(text, ReasoningMarker)
        action_name ==
            IF Len(action_lines) > 1
            THEN Strip(SplitFirst(Strip(action_lines[2]), LF)[1])
            ELSE NameFinish
        reasoning ==
            IF Len(reasoning_lines) > 1 THEN Strip(reasoning_lines[2]) ELSE CouldNotParse
    IN  Decided(st, StrVal(action_name), DictVal(EmptyDict), StrVal(reasoning))

\* `content` is the content of the planner's response
determine_next_action(st, content) ==
    LET parsed == JsonLoads(StripFence(content))
    IN  IF parsed.raised
        THEN DecidedFromText(st, content.text)
        ELSE IF parsed.value.t # "dict"
        THEN \* .get on a value that is no object: caught by except Exception
             Decided(st, StrVal(NameFinish), DictVal(EmptyDict), StrVal(CouldNotParse))
        ELSE Decided(st,
                     Get(parsed.value.v, "action", StrVal(NameFinish)),
                     Get(parsed.value.v, "parameters", DictVal(EmptyDict)),
                     Get(parsed.value.v, "reasoning", StrVal(NoReasoning)))

DefaultPlan ==
    <<<<"List project files">>, <<"Analyze files">>, <<"Implement changes">>, <<"Test solution">>>>

\* a line of the plan: it starts with a dash or a digit
IsPlanLine(line) ==
    Strip(line) # <<>> /\ Strip(line)[1] \in {"-"} \cup {Digit(d) : d \in 0..9}

RECURSIVE PlanLines(_)
PlanLines(lines) ==
    IF lines = <<>> THEN <<>>
    ELSE (IF IsPlanLine(Head(lines)) THEN <<Strip(Head(lines))>> ELSE <<>>)
            \o PlanLines(Tail(lines))

\* `content` is the content of the planner's response
analyze_task(st, content) ==
    LET plan_lines == PlanLines(SplitOn(content, LF))
    IN  [st EXCEPT !.thought_process = content,
                   !.current_plan = IF plan_lines # <<>> THEN plan_lines ELSE DefaultPlan]

\* a GenerateSolution that replaces the transcript by its answer
generate_solution_summarised(st, content) ==
    [st EXCEPT !.final_answer = content, !.thought_process = content]

\* `content` is the content of the planner's response
generate_solution(st, content) == [st EXCEPT !.final_answer = content]

----------------------------------------------------------------------------
(* The workflow graph                                                      *)

ActionNames ==
    {NameReadFile, NameReadFileLines, NameWriteFile, NameEditFile,
     NameListDirectory, NameSearchText}

\* the nodes of the six adapters
AdapterNodes ==
    {"read_file", "read_file_lines", "write_file", "edit_file", "list_directory", "search_text"}

\* the name the conditional edge is given for a state
decide_next_step(st) ==
    LET next_action == st.next_action
    IN  IF next_action.t = "str" /\ next_action.v \in ActionNames \cup {NameFinish}
        THEN next_action.v
        ELSE <<"determine_next_action">>

\* a mapping that sends read_file_lines to the read_file node
PathMap_crossed ==
    (NameReadFile :> "read_file") @@ (NameReadFileLines :> "read_file")
        @@ (NameWriteFile :> "write_file") @@ (NameEditFile :> "edit_file")
        @@ (NameListDirectory :> "list_directory") @@ (NameSearchText :> "search_text")
        @@ (NameFinish :> "generate_solution")

\* the mapping given to add_conditional_edges: name returned -> node
PathMap ==
    (NameReadFile :> "read_file") @@ (NameReadFileLines :> "read_file_lines")
        @@ (NameWriteFile :> "write_file") @@ (NameEditFile :> "edit_file")
        @@ (NameListDirectory :> "list_directory") @@ (NameSearchText :> "search_text")
        @@ (NameFinish :> "generate_solution")

\* a conditional edge looks the returned name up in its mapping; a name the
\* mapping does not hold is a KeyError
ConditionalEdge(st) ==
    LET name == decide_next_step(st)
    IN  IF name \in DOMAIN PathMap
        THEN [raised |-> FALSE, node |-> PathMap[name]]
        ELSE [raised |-> TRUE, node |-> "raised"]

\* edges in which generate_solution leads back to Decide
Edge_loop(n) ==
    IF n = "__start__" THEN "analyze_task"
    ELSE IF n = "analyze_task" THEN "determine_next_action"
    ELSE IF n \in AdapterNodes \cup {"generate_solution"} THEN "determine_next_action"
    ELSE "__end__"

\* the plain edges: the node that runs after n; a node without an edge ends the run
Edge(n) ==
    IF n = "__start__" THEN "analyze_task"
    ELSE IF n = "analyze_task" THEN "determine_next_action"
    ELSE IF n \in AdapterNodes THEN "determine_next_action"
    ELSE "__end__"

\* a value that answers .get: a dictionary
IsMapping(value) == "t" \notin DOMAIN value

\* state.copy() is a shallow copy: the copy has its own fields and shares the
\* files_content dictionary, so the state a step was given reads, after the
\* step, what the step stored in that dictionary
ShallowCopyView(st, updated_state) ==
    [st EXCEPT !.files_content = updated_state.files_content]

----------------------------------------------------------------------------
(* The project on disk and the planner's inputs                            *)

\* ProjectRoot is /p.  Outside it the disk holds the sibling directory /pa
\* with the file /pa/s.
ProjectRoot == <<SLASH, "p">>
OutsideDir == <<SLASH, "p", "a">>
OutsideFile == <<SLASH, "p", "a", SLASH, "s">>
FileA == <<SLASH, "p", SLASH, "a">>

\* planner-supplied paths: an existing file, a file in a missing directory,
\* the root itself, two escapes from the root, a path through a file
RelA == <<"a">>
RelNew == <<"d", SLASH, "b">>
RelRoot == <<DOT>>
RelSibling == <<DOT, DOT, SLASH, "p", "a", SLASH, "s">>
RelSiblingNew == <<DOT, DOT, SLASH, "p", "a", SLASH, "n", SLASH, "x">>
RelEscape == <<DOT, DOT, SLASH, "x">>
RelDotA == <<DOT, SLASH, "a">>
RelMissing == <<"z">>
RelThroughFile == <<"a", SLASH, "c">>
\* a file name that holds the words "Could not read file content"
RelCouldNotRead ==
    <<"C", "o", "u", "l", "d", " ", "n", "o", "t", " ", "r", "e", "a", "d", " ",
      "f", "i", "l", "e", " ", "c", "o", "n", "t", "e", "n", "t">>

FilePaths ==
    {RelA, RelNew, RelMissing, RelRoot, RelSibling, RelSiblingNew, RelEscape, RelThroughFile}

TextAB == <<"a", "b">>
TextLines == <<"a", LF, "b", LF>>
TextCRLF == <<"a", CR, LF>>
TextError == ERROR \o <<"x">>
FiveLines == <<"a", LF, "b", LF, "c", LF, "d", LF, "e", LF>>

InitialContents == {TextLines, TextCRLF, TextError}
WriteContents == {<<>>, TextCRLF}
EditPairs == {<<<<"a">>, <<"b">>>>, <<<<"x">>, <<"y">>>>}
LinePaths == {RelA, RelSibling, RelEscape}
SmallRanges == {<<1, 2>>, <<0, 1>>}

PathAlphabet == {SLASH, DOT, "p", "a"}
ResolveRoots == {ProjectRoot, <<SLASH, "p", SLASH>>, <<SLASH, "p", SLASH, "a">>}

ContentAlphabet == {"a", "b", LF, CR}
EditContentAlphabet == {"a", "b", CR}
OldStrings == StringsUpTo({"a", "b"}, MaxEditLen)
NewStrings == StringsUpTo({"b", "c", CR}, MaxEditLen)
LineNumbers == (-1..MaxLine) \cup {100, 200, 1000000000}

Disk(content) == (FileA :> content) @@ (OutsideFile :> <<"s">>)
InitialDirs == {<<SLASH>>, ProjectRoot, OutsideDir}

\* the corpus of the search specification: two source files in the root, one
\* in a subdirectory, and files the walk must leave alone (in a hidden
\* directory, in a build directory, in a dist directory below the
\* subdirectory, a hidden file, a binary)
FileM == ProjectRoot \o <<SLASH, "m", DOT, "p", "y">>
FileQ == ProjectRoot \o <<SLASH, "Q", DOT, "P", "Y">>
FileN == ProjectRoot \o <<SLASH, "s", SLASH, "n", DOT, "t", "x", "t">>
FileHiddenDir == ProjectRoot \o <<SLASH, DOT, "g", SLASH, "h", DOT, "p", "y">>
FileBuildDir == ProjectRoot \o <<SLASH, "b", "u", "i", "l", "d", SLASH, "o", DOT, "p", "y">>
FileHidden == ProjectRoot \o <<SLASH, DOT, "e", DOT, "p", "y">>
FileBinary == ProjectRoot \o <<SLASH, "b", DOT, "b", "i", "n">>
FileDeep == ProjectRoot \o <<SLASH, "s", SLASH, "d", "i", "s", "t", SLASH, "d", DOT, "p", "y">>

TextAxb == <<"a", "x", "b", " ", "a", DOT, "b", LF>>
TextFoo == <<"F", "o", "o", " ", "f", "o", "o", LF, "f", "o", "o">>
TextCRLines == <<"a", DOT, "b", CR, LF, "a", "x", "b", CR, "A", DOT, "B">>
TextAll == <<"a", DOT, "b", " ", "a", "x", "b", " ", "F", "o", "o", LF>>

SearchTexts == {<<>>, TextAxb, TextFoo, TextCRLines}

Corpus(c1, c2) ==
    (FileM :> c1) @@ (FileQ :> c2) @@ (FileN :> <<"a", "x", "b", LF>>)
        @@ (FileHiddenDir :> TextAll) @@ (FileBuildDir :> TextAll)
        @@ (FileHidden :> TextAll) @@ (FileBinary :> TextAll) @@ (FileDeep :> TextAll)

\* the corpus with a source file in the root that the agent may not read
LockedCorpus(c1) == Corpus(c1, <<>>) @@ (FileLocked :> TextAll)

CorpusDirs ==
    {<<SLASH>>, ProjectRoot, DirName(FileN), DirName(FileHiddenDir), DirName(FileBuildDir),
     DirName(FileDeep)}

TermADotB == <<"a", DOT, "b">>
TermFoo == <<"f", "o", "o">>
SearchTerms == {<<>>, TermADotB, TermFoo, <<"F", "o", "o">>, <<DOT>>, <<"a", "(">>, <<"b", LF>>}
MaxResultsValues == (0..MaxResults) \cup {100}

\* the project the adapters work on: the file a, the source file m.py, and
\* the sibling directory outside the root
AdapterDisk == (FileA :> TextLines) @@ (FileM :> TextAxb) @@ (OutsideFile :> <<"s">>)

\* a project whose root directory holds nothing yet
EmptyProject == (OutsideFile :> <<"s">>)

\* a project whose file a holds a text that begins with "Error", next to a
\* file that is named Error
ErrorProject ==
    (FileA :> TextError) @@ (ProjectRoot \o <<SLASH>> \o ERROR :> <<"x">>)
        @@ (OutsideFile :> <<"s">>)

\* the agent state before the first action (core/types.py, AgentState)
InitialState ==
    [messages |-> <<>>, task |-> <<"t">>, project_root |-> ProjectRoot,
     files_content |-> [k \in {} |-> <<>>], current_plan |-> <<>>,
     thought_process |-> <<>>, next_action |-> <<>>,
     action_input |-> [k \in {} |-> NoneVal], action_output |-> <<>>,
     final_answer |-> <<>>, model_provider |-> <<"m">>]

\* a keyword argument that may be left out of a call
Optional(present, key, v) == IF present THEN (key :> v) ELSE [k \in {} |-> v]


\* a response that is a JSON text
Json(value) == [json |-> TRUE, fenced |-> FALSE, value |-> value, text |-> <<>>]
Fenced(value) == [json |-> TRUE, fenced |-> TRUE, value |-> value, text |-> <<>>]
\* a response that is no JSON text
Text(chars) == [json |-> FALSE, fenced |-> FALSE, value |-> NoneVal, text |-> chars]

\* the JSON object {"action": ..., "parameters": ..., "reasoning": "r"}
Decision(action, parameters) ==
    Json(DictVal([action |-> action, parameters |-> parameters, reasoning |-> StrVal(<<"r">>)]))

AbsInside == ProjectRoot \o <<SLASH, "a">>
AbsOutside == <<SLASH, "x">>

\* decisions the planner is meant to give: one of the six actions with
\* parameters that are a mapping, or finish
WellFormedDecisions ==
    {Decision(StrVal(NameReadFile), DictVal([file_path |-> StrVal(RelA)])),
     Decision(StrVal(NameReadFile), DictVal([file_path |-> StrVal(<<"z">>)])),
     Decision(StrVal(NameReadFile), DictVal([file_path |-> StrVal(AbsInside)])),
     Decision(StrVal(NameReadFile), DictVal([file_path |-> StrVal(AbsOutside)])),
     Decision(StrVal(NameReadFileLines),
              DictVal([file_path |-> StrVal(RelA), from_line |-> IntVal(1), to_line |-> StrVal(<<"x">>)])),
     Decision(StrVal(NameReadFileLines),
              DictVal([file_path |-> StrVal(RelA), from_line |-> IntVal(1), to_line |-> StrVal(<<"2">>)])),
     Fenced(DictVal([action |-> StrVal(NameWriteFile),
                     parameters |-> DictVal([file_path |-> StrVal(RelNew), content |-> StrVal(TextAB)])])),
     Decision(StrVal(NameEditFile),
              DictVal([file_path |-> StrVal(RelA), old_string |-> StrVal(<<"a">>),
                       new_string |-> StrVal(<<"c", CR>>)])),
     Decision(StrVal(NameEditFile),
              DictVal([file_path |-> StrVal(RelA), old_string |-> StrVal(<<"a">>),
                       new_string |-> StrVal(<<"c">>)])),
     Decision(StrVal(NameWriteFile),
              DictVal([file_path |-> StrVal(AbsInside), content |-> StrVal(TextAB)])),
     Decision(StrVal(NameListDirectory), DictVal(EmptyDict)),
     Decision(StrVal(NameListDirectory), DictVal([directory_path |-> StrVal(ProjectRoot)])),
     Decision(StrVal(NameSearchText), DictVal([search_term |-> StrVal(TermADotB)])),
     Decision(StrVal(NameFinish), DictVal(EmptyDict)),
     Text(<<"I", " ", ActionMarker, " ">> \o NameReadFile \o <<LF, ReasoningMarker, " ", "b">>)}

\* responses the planner is not meant to give
MalformedResponses ==
    {Decision(StrVal(NameReadFile), NoneVal),
     Decision(StrVal(NameWriteFile), ListVal(<<StrVal(RelA)>>)),
     Decision(NoneVal, DictVal(EmptyDict)),
     Decision(IntVal(5), DictVal(EmptyDict)),
     Decision(StrVal(<<"r", "e", "a", "d">>), DictVal([file_path |-> StrVal(RelA)])),
     Json(DictVal([parameters |-> DictVal([file_path |-> StrVal(RelA)])])),
     Json(ListVal(<<IntVal(1)>>)),
     Json(NoneVal),
     Text(<<"g", "a", "r", "b", "a", "g", "e">>),
     Text(<<>>),
     Text(<<"L", "e", "t", " ", "m", "e", DOT, " ", ActionMarker>>),
     Text(<<ActionMarker, " ", "d", "o", " ", "i", "t">>)}

DecideResponses == WellFormedDecisions \cup MalformedResponses

\* the planner's answers to Analyze and to GenerateSolution
AnalyzeResponses == {<<"1", DOT, " ", "a", LF, " ", "-", " ", "b", LF, "c">>, <<"o", "k">>}
SolutionResponses == {<<"d", "o", "n", "e">>}

----------------------------------------------------------------------------
(* The state a run starts with (main.py)                                   *)

\* the depth to which main scans the project
max_depth == 2

\* the files main reads at once, and the extensions of the files it notes
KeyFiles ==
    {<<"r", "e", "a", "d", "m", "e", DOT, "m", "d">>,
     <<"p", "y", "p", "r", "o", "j", "e", "c", "t", DOT, "t", "o", "m", "l">>,
     <<"s", "e", "t", "u", "p", DOT, "p", "y">>,
     <<"r", "e", "q", "u", "i", "r", "e", "m", "e", "n", "t", "s", DOT, "t", "x", "t">>,
     <<"p", "a", "c", "k", "a", "g", "e", DOT, "j", "s", "o", "n">>,
     <<DOT, "e", "n", "v", DOT, "e", "x", "a", "m", "p", "l", "e">>,
     <<"d", "o", "c", "k", "e", "r", "f", "i", "l", "e">>,
     <<"d", "o", "c", "k", "e", "r", "-", "c", "o", "m", "p", "o", "s", "e", DOT, "y", "m", "l">>,
     <<DOT, "g", "i", "t", "i", "g", "n", "o", "r", "e">>}

NotedExtensions ==
    {<<DOT, "p", "y">>,
     <<DOT, "j", "s">>,
     <<DOT, "t", "s">>,
     <<DOT, "j", "a", "v", "a">>,
     <<DOT, "c">>,
     <<DOT, "c", "p", "p">>,
     <<DOT, "g", "o">>,
     <<DOT, "r", "s">>,
     <<DOT, "p", "h", "p">>,
     <<DOT, "r", "b">>,
     <<DOT, "m", "d">>,
     <<DOT, "t", "x", "t">>,
     <<DOT, "j", "s", "o", "n">>,
     <<DOT, "y", "a", "m", "l">>,
     <<DOT, "y", "m", "l">>,
     <<DOT, "i", "n", "i">>,
     <<DOT, "c", "f", "g">>}

\* what the scan stores for an entry that is taken for a file
NoteFile(disk, project_root, item_rel_path, item, files_content) ==
    IF LowerStr(item) \in KeyFiles
    THEN LET content == read_file(disk, project_root, item_rel_path).ret
         IN  Put(files_content, item_rel_path,
                 IF ~StartsWith(content, ERROR) THEN content
                 ELSE <<"File exists but couldn't be read: ">> \o content)
    ELSE IF SplitExt(LowerStr(item)) \in NotedExtensions
    THEN Put(files_content, item_rel_path, <<"File exists (content not loaded initially)">>)
    ELSE files_content

\* the order os.listdir chose for a directory
OrderAt(orders, abs) == IF abs \in DOMAIN orders THEN orders[abs] ELSE <<>>

\* the list list_directory returns during the scan
Scanned(disk, project_root, directory_path, orders) ==
    list_directory(disk, project_root, directory_path,
                   OrderAt(orders, AbsPath(PathJoin(project_root, directory_path)))).ret

\* an entry is taken for a directory when listing it gave no error list
TakenForDirectory(subitems) == ~(Len(subitems) = 1 /\ StartsWith(subitems[1], ERROR))

RECURSIVE explore_directory(_, _, _, _, _, _)
RECURSIVE ExploreItems(_, _, _, _, _, _, _)

\* the loop over the entries of the directory rel_path
ExploreItems(disk, project_root, current_depth, rel_path, items, files_content, orders) ==
    IF items = <<>> THEN files_content
    ELSE LET item == Head(items)
             item_rel_path == IF rel_path # <<>> THEN PathJoin(rel_path, item) ELSE item
         IN ExploreItems(disk, project_root, current_depth, rel_path, Tail(items),
                         IF TakenForDirectory(Scanned(disk, project_root, item_rel_path, orders))
                         THEN explore_directory(disk, project_root, current_depth + 1,
                                                item_rel_path, files_content, orders)
                         ELSE NoteFile(disk, project_root, item_rel_path, item, files_content),
                         orders)

\* explore_directory of initialize_files_content; rel_path is "" for the root
explore_directory(disk, project_root, current_depth, rel_path, files_content, orders) ==
    IF current_depth > max_depth THEN files_content
    ELSE LET items == Scanned(disk, project_root,
                              IF rel_path # <<>> THEN rel_path ELSE <<DOT>>, orders)
         IN ExploreItems(disk, project_root, current_depth, rel_path, items,
                         IF rel_path # <<>>
                         THEN Put(files_content, rel_path,
                                  <<"Directory containing: ">> \o JoinWith(items, ", "))
                         ELSE Put(files_content, <<DOT>>,
                                  <<"Project root containing: ">> \o JoinWith(items, ", ")),
                         orders)

initialize_files_content(disk, project_root, orders) ==
    explore_directory(disk, project_root, 1, <<>>, [k \in {} |-> <<>>], orders)

\* every choice of the order in which os.listdir names the entries of the
\* directories of the project
ScanOrders(disk, project_root) ==
    LET D == {d \in disk.dirs : StartsWith(d, project_root)}
    IN  {o \in [D -> UNION {Orderings(Entries(disk, d)) : d \in D}] :
            \A d \in D : o[d] \in Orderings(Entries(disk, d))}

\* a state that has a plan before Analyze has run
initial_state_planned(task, project_root, files_content) ==
    [messages |-> <<>>, task |-> task, project_root |-> project_root,
     files_content |-> files_content,
     current_plan |-> DefaultPlan, thought_process |-> None, next_action |-> NoneVal,
     action_input |-> NoneVal, action_output |-> None, final_answer |-> None,
     model_provider |-> <<"m">>]

\* the state main hands to the workflow
initial_state(task, project_root, files_content) ==
    [messages |-> <<>>, task |-> task, project_root |-> project_root,
     files_content |-> files_content,
     current_plan |-> None, thought_process |-> None, next_action |-> NoneVal,
     action_input |-> NoneVal, action_output |-> None, final_answer |-> None,
     model_provider |-> <<"m">>]

\* the task the user entered
WorkflowTask == <<"t">>

----------------------------------------------------------------------------
(* Model providers: settings, model manager, model service                 *)

\* the values of the enumeration ModelProvider
OPENAI == <<"o", "p", "e", "n", "a", "i">>
ANTHROPIC == <<"a", "n", "t", "h", "r", "o", "p", "i", "c">>
GOOGLE == <<"g", "o", "o", "g", "l", "e">>
ModelProviders == {OPENAI, ANTHROPIC, GOOGLE}

\* ModelProvider(value): the member with that value, or ValueError
ModelProvider(value) ==
    IF value \in ModelProviders
    THEN [raised |-> FALSE, v |-> value]
    ELSE [raised |-> TRUE, v |-> <<"ValueError">>]

\* str.lower on the letters of the provider names
LowerName(name) ==
    [i \in 1..Len(name) |->
        IF name[i] = "G" THEN "g" ELSE IF name[i] = "O" THEN "o" ELSE Lower(name[i])]

\* ConfigurationManager.set_model_provider: the settings it leaves, or the
\* exception that leaves it (str.lower of a value that is no string)
set_model_provider(st, provider) ==
    IF provider.t # "str"
    THEN [raised |-> TRUE, settings |-> st]
    ELSE LET provider_enum == ModelProvider(LowerName(provider.v))
         IN  IF provider_enum.raised
             THEN [raised |-> FALSE, settings |-> st]
             ELSE IF provider_enum.v = ANTHROPIC /\ ~st.ANTHROPIC_API_KEY
             THEN [raised |-> FALSE, settings |-> st]
             ELSE IF provider_enum.v = GOOGLE /\ ~st.GOOGLE_API_KEY
             THEN [raised |-> FALSE, settings |-> st]
             ELSE [raised |-> FALSE,
                   settings |-> [st EXCEPT !.ACTIVE_PROVIDER = provider_enum.v]]

\* ConfigurationManager.get_model_config: the provider-specific model name
get_model_config(st) ==
    LET provider == st.ACTIVE_PROVIDER
    IN  IF provider = OPENAI THEN ("openai_model_name" :> "MODEL_NAME")
        ELSE IF provider = ANTHROPIC THEN ("anthropic_model_name" :> "ANTHROPIC_MODEL")
        ELSE ("google_model_name" :> "GOOGLE_MODEL")

get_active_provider(st) == st.ACTIVE_PROVIDER

\* ModelManager._initialize_model; the constructors of the chat models are
\* taken to succeed
_initialize_model(mm) ==
    IF mm._provider = OPENAI
    THEN [mm EXCEPT !._current_model = "ChatOpenAI"]
    ELSE IF mm._provider = ANTHROPIC /\ mm.ANTHROPIC_AVAILABLE
    THEN [mm EXCEPT !._current_model = "ChatAnthropic"]
    ELSE IF mm._provider = GOOGLE /\ mm.GOOGLE_AVAILABLE
    THEN [mm EXCEPT !._current_model = "ChatGoogleGenerativeAI"]
    ELSE [mm EXCEPT !._provider = OPENAI, !._current_model = "ChatOpenAI"]

\* the setter of ModelManager.provider
SetProvider(mm, value) ==
    IF mm._provider # value
    THEN _initialize_model([mm EXCEPT !._provider = value])
    ELSE mm

\* dict.update
Update(mapping, config) ==
    [k \in DOMAIN mapping \cup DOMAIN config |->
        IF k \in DOMAIN config THEN config[k] ELSE mapping[k]]

update_config(mm, config) ==
    _initialize_model([mm EXCEPT !._model_configs = Update(@, config)])

\* ModelService.refresh_from_config
refresh_from_config(st, mm) ==
    LET model_config == get_model_config(st)
        provider == ModelProvider(get_active_provider(st)).v
    IN  update_config(SetProvider(mm, provider), model_config)

\* ModelService.switch_provider
switch_provider(st, mm, provider_name) ==
    LET set == set_model_provider(st, provider_name)
    IN  IF set.raised
        THEN [settings |-> set.settings, model_manager |-> mm, ret |-> FALSE]
        ELSE [settings |-> set.settings,
              model_manager |-> refresh_from_config(set.settings, mm),
              ret |-> TRUE]

\* ModelService.get_current_provider
get_current_provider(mm) == mm._provider

\* the model manager as the module creates it, before any configuration
NewModelManager(anthropic_available, google_available) ==
    _initialize_model([_provider |-> OPENAI, _model_configs |-> [k \in {} |-> ""],
                       _current_model |-> "None",
                       ANTHROPIC_AVAILABLE |-> anthropic_available,
                       GOOGLE_AVAILABLE |-> google_available])

\* the settings and the model manager of the specifications that switch no provider
ServiceAtStart ==
    /\ settings = [ACTIVE_PROVIDER |-> OPENAI, ANTHROPIC_API_KEY |-> FALSE,
                   GOOGLE_API_KEY |-> FALSE]
    /\ model_manager = refresh_from_config(settings, NewModelManager(TRUE, TRUE))

\* the provider names a caller may ask for
ProviderNames ==
    {StrVal(OPENAI), StrVal(ANTHROPIC), StrVal(GOOGLE),
     StrVal(<<"G", "o", "o", "g", "l", "e">>), StrVal(<<"m", "i", "s", "t", "r", "a", "l">>),
     NoneVal}

----------------------------------------------------------------------------
(* Operations as steps                                                     *)

\* one call of an operation: its outcome becomes the new disk and return value
Do(c, outcome) ==
    /\ nsteps < MaxSteps
    /\ \E out \in {outcome} :
          /\ call' = c
          /\ ret' = out.ret
          /\ files' = out.files
          /\ dirs' = out.dirs
          /\ opened' = out.opened
    /\ pre' = [files |-> files, dirs |-> dirs, call |-> call]
    /\ nsteps' = nsteps + 1
    /\ UNCHANGED <<settings, model_manager>>
    /\ UNCHANGED <<state, node, given, trail>>

ReadFile(paths) ==
    \E p \in paths :
        Do([op |-> "read_file", file_path |-> p], read_file(Now, ProjectRoot, p))

ReadFileLines(paths, ranges) ==
    \E p \in paths, r \in ranges :
        Do([op |-> "read_file_lines", file_path |-> p, from_line |-> r[1], to_line |-> r[2]],
           read_file_lines(Now, ProjectRoot, p, r[1], r[2]))

WriteFile(paths, contents) ==
    \E p \in paths, c \in contents :
        Do([op |-> "write_file", file_path |-> p, content |-> c],
           write_file(Now, ProjectRoot, p, c))

EditFile(paths, pairs) ==
    \E p \in paths, e \in pairs :
        Do([op |-> "edit_file", file_path |-> p, old_string |-> e[1], new_string |-> e[2]],
           edit_file(Now, ProjectRoot, p, e[1], e[2]))

ListDirectory(paths) ==
    \E p \in paths : \E listing \in Listings(Now, ProjectRoot, p) :
        Do([op |-> "list_directory", file_path |-> p],
           list_directory(Now, ProjectRoot, p, listing))

\* the resolver applied to the input drawn by InitResolve
Resolve ==
    /\ call.op = "input"
    /\ call' = [call EXCEPT !.op = "_resolve_path"]
    /\ ret' = _resolve_path(call.project_root, call.relative_path)
    /\ nsteps' = nsteps + 1
    /\ UNCHANGED <<settings, model_manager>>
    /\ UNCHANGED <<files, dirs, opened, state, pre, node, given, trail>>

\* edit_file applied to the request drawn by InitEdit, and applied again
EditRequest ==
    /\ call.op \in {"input", "edit_file"}
    /\ Do([call EXCEPT !.op = "edit_file"],
          edit_file(Now, ProjectRoot, call.file_path, call.old_string, call.new_string))

\* the value of a keyword argument, or the default of the signature
Kw(c, key, default) == IF key \in DOMAIN c THEN c[key] ELSE default

\* search_text applied to the request drawn by InitSearch
SearchRequest ==
    /\ call.op = "input"
    /\ LET extensions == Kw(call, "file_extensions", DefaultExtensions)
       IN  \E order \in WalkOrders(Candidates(Now, ProjectRoot, extensions)) :
              Do([op |-> "search_text"] @@ call,
                 search_text(Now, ProjectRoot, call.search_term, extensions,
                             Kw(call, "case_sensitive", FALSE),
                             Kw(call, "regex_mode", FALSE),
                             Kw(call, "max_results", 100), order))

\* read_file_lines applied to the request drawn by InitLines
ReadLinesRequest ==
    /\ call.op = "input"
    /\ Do([call EXCEPT !.op = "read_file_lines"],
          read_file_lines(Now, ProjectRoot, call.file_path, call.from_line, call.to_line))

\* one adapter run on the action_input the planner chose: the state it
\* returns becomes the agent state, its effect on the disk the new disk
Run(action, action_input, outcome) ==
    /\ nsteps < MaxSteps
    /\ call' = [op |-> action, action_input |-> action_input]
    /\ \E out \in {outcome} :
          /\ state' = out.state
          /\ ret' = out.state.action_output
          /\ files' = out.files
          /\ dirs' = out.dirs
          /\ opened' = out.opened
    /\ pre' = [files |-> files, dirs |-> dirs, call |-> call]
    /\ nsteps' = nsteps + 1
    /\ UNCHANGED <<settings, model_manager>>
    /\ UNCHANGED <<node, given, trail>>

\* the state an adapter receives: the planner has set the action and its input
Planned(action, action_input) ==
    [state EXCEPT !.next_action = action, !.action_input = action_input]

ReadFileAction ==
    \E fp \in {"absent", "empty", "a", "new"} :
        LET action_input ==
                Optional(fp # "absent", "file_path",
                         StrVal(IF fp = "empty" THEN <<>> ELSE IF fp = "a" THEN RelA ELSE RelNew))
        IN  Run(<<"read_file">>, action_input,
                read_file_action(Now, Planned(<<"read_file">>, action_input)))

WriteFileAction ==
    \E fp \in {"absent", "a", "dot_a", "escape"}, ct \in {"absent", "empty", "ab"} :
        LET action_input ==
                Optional(fp # "absent", "file_path",
                         StrVal(IF fp = "a" THEN RelA
                                ELSE IF fp = "dot_a" THEN RelDotA ELSE RelEscape))
                    @@ Optional(ct # "absent", "content",
                                StrVal(IF ct = "empty" THEN <<>> ELSE TextAB))
        IN  Run(<<"write_file">>, action_input,
                write_file_action(Now, Planned(<<"write_file">>, action_input)))

EditFileAction ==
    \E fp \in {"absent", "a", "phrase"}, os \in BOOLEAN, ns \in BOOLEAN :
        LET action_input ==
                Optional(fp # "absent", "file_path",
                         StrVal(IF fp = "a" THEN RelA ELSE RelCouldNotRead))
                    @@ Optional(os, "old_string", StrVal(<<"a">>))
                    @@ Optional(ns, "new_string", StrVal(<<"b">>))
        IN  Run(<<"edit_file">>, action_input,
                edit_file_action(Now, Planned(<<"edit_file">>, action_input)))

ListDirectoryAction ==
    \E dp \in {"absent", "root", "missing"} :
        LET action_input ==
                Optional(dp # "absent", "directory_path",
                         StrVal(IF dp = "root" THEN RelRoot ELSE <<"z">>))
            directory_path == Get(action_input, "directory_path", StrVal(<<DOT>>)).v
        IN  \E listing \in Listings(Now, ProjectRoot, directory_path) :
               Run(<<"list_directory">>, action_input,
                   list_directory_action(Now, Planned(<<"list_directory">>, action_input), listing))

\* the values the planner may give for a line number
LineValue(kind) ==
    IF kind = "none" THEN NoneVal
    ELSE IF kind = "int" THEN IntVal(1)
    ELSE IF kind = "digits" THEN StrVal(<<"2">>)
    ELSE StrVal(<<"x">>)

ReadFileLinesAction ==
    \E fp \in BOOLEAN, fl \in {"absent", "none", "int", "digits", "word"},
       tl \in {"absent", "digits"} :
        LET action_input ==
                Optional(fp, "file_path", StrVal(RelA))
                    @@ Optional(fl # "absent", "from_line", LineValue(fl))
                    @@ Optional(tl # "absent", "to_line", LineValue(tl))
        IN  Run(<<"read_file_lines">>, action_input,
                read_file_lines_action(Now, Planned(<<"read_file_lines">>, action_input)))

SearchTextAction ==
    \E st \in {"absent", "empty", "a.b"}, mx \in {"absent", "one"}, re \in BOOLEAN :
        LET action_input ==
                Optional(st # "absent", "search_term",
                         StrVal(IF st = "empty" THEN <<>> ELSE TermADotB))
                    @@ Optional(mx # "absent", "max_results", IntVal(1))
                    @@ Optional(re, "regex_mode", BoolVal(TRUE))
        IN  \E order \in WalkOrders(Candidates(Now, ProjectRoot, ExtensionsOf(action_input))) :
               Run(<<"search_text">>, action_input,
                   search_text_action(Now, Planned(<<"search_text">>, action_input), order))

\* one node of the workflow has run and returned: `outcome` holds the state
\* it returned and the disk it left, `next` is the node its edge leads to, or
\* "raised" when the lookup of the conditional edge raised a KeyError
Ran(n, c, outcome, next) ==
    /\ \E out \in {outcome} :
          /\ state' = out.state
          /\ given' = ShallowCopyView(state, out.state)
          /\ files' = out.files
          /\ dirs' = out.dirs
          /\ opened' = out.opened
    /\ node' = next
    /\ ret' = IF next = "raised" THEN <<"KeyError">> ELSE None
    /\ trail' = Append(trail, n)
    /\ call' = c
    /\ pre' = [files |-> files, dirs |-> dirs, call |-> call, state |-> state]
    /\ nsteps' = nsteps + 1
    /\ UNCHANGED <<settings, model_manager>>

\* a node raised `exception` before it returned a state: the run is over
Raised(n, c, exception) ==
    /\ node' = "raised"
    /\ ret' = exception
    /\ trail' = Append(trail, n)
    /\ call' = c
    /\ pre' = [files |-> files, dirs |-> dirs, call |-> call, state |-> state]
    /\ nsteps' = nsteps + 1
    /\ UNCHANGED <<settings, model_manager>>
    /\ UNCHANGED <<state, given, files, dirs, opened>>

\* a reasoning step touches no file
Reasoned(updated_state) == Adapted(updated_state, NoEffect(Now, None))

Analyze ==
    /\ node = "analyze_task"
    /\ \E content \in AnalyzeResponses :
          Ran("analyze_task", [op |-> "analyze_task", content |-> content],
              Reasoned(analyze_task(state, content)), Edge("analyze_task"))

\* Decide and the conditional edge that follows it
Decide ==
    /\ node = "determine_next_action"
    /\ Cardinality({i \in 1..Len(trail) : trail[i] = "determine_next_action"}) < MaxDecisions
    /\ \E content \in DecideResponses :
          \E updated_state \in {determine_next_action(state, content)} :
             Ran("determine_next_action",
                 [op |-> "determine_next_action", content |-> content],
                 Reasoned(updated_state),
                 ConditionalEdge(updated_state).node)

\* an adapter node: action_input.get raises when action_input is no dictionary
AdapterNode(n, outcome) ==
    /\ node = n
    /\ IF IsMapping(state.action_input)
       THEN Ran(n, [op |-> n], outcome, Edge(n))
       ELSE Raised(n, [op |-> n], <<"AttributeError">>)

ReadFileNode == AdapterNode("read_file", read_file_action(Now, state))

ReadFileLinesNode == AdapterNode("read_file_lines", read_file_lines_action(Now, state))

WriteFileNode == AdapterNode("write_file", write_file_action(Now, state))

EditFileNode == AdapterNode("edit_file", edit_file_action(Now, state))

ListDirectoryNode ==
    /\ node = "list_directory"
    /\ IF IsMapping(state.action_input)
       THEN \E listing \in Listings(Now, ProjectRoot,
                                    Get(state.action_input, "directory_path", StrVal(<<DOT>>)).v) :
               Ran("list_directory", [op |-> "list_directory"],
                   list_directory_action(Now, state, listing), Edge("list_directory"))
       ELSE Raised("list_directory", [op |-> "list_directory"], <<"AttributeError">>)

SearchTextNode ==
    /\ node = "search_text"
    /\ IF IsMapping(state.action_input)
       THEN \E order \in WalkOrders(Candidates(Now, ProjectRoot, ExtensionsOf(state.action_input))) :
               Ran("search_text", [op |-> "search_text"],
                   search_text_action(Now, state, order), Edge("search_text"))
       ELSE Raised("search_text", [op |-> "search_text"], <<"AttributeError">>)

GenerateSolution ==
    /\ node = "generate_solution"
    /\ \E content \in SolutionResponses :
          Ran("generate_solution", [op |-> "generate_solution", content |-> content],
              Reasoned(generate_solution(state, content)), Edge("generate_solution"))

----------------------------------------------------------------------------
(* Specifications                                                          *)

\* no workflow is running
NoWorkflow ==
    /\ node = "none"
    /\ given = None
    /\ trail = <<>>

InitCommon ==
    /\ NoWorkflow
    /\ dirs = InitialDirs
    /\ opened = {}
    /\ ret = None
    /\ state = None
    /\ nsteps = 0
    /\ ServiceAtStart

\* the file operations, in any order, on a small project
Init ==
    /\ InitCommon
    /\ \E c \in InitialContents : files = Disk(c)
    /\ call = [op |-> "none"]
    /\ pre = [files |-> files, dirs |-> dirs, call |-> call]

Next ==
    \/ ReadFile(FilePaths)
    \/ ReadFileLines(LinePaths, SmallRanges)
    \/ WriteFile(FilePaths, WriteContents)
    \/ EditFile(FilePaths, EditPairs)
    \/ ListDirectory(FilePaths)

Spec == Init /\ [][Next]_vars

\* the path resolver on every root and every short path
InitResolve ==
    /\ InitCommon
    /\ files = Disk(TextLines)
    /\ \E r \in ResolveRoots, p \in StringsUpTo(PathAlphabet, MaxRelLen) :
          call = [op |-> "input", project_root |-> r, relative_path |-> p]
    /\ pre = [files |-> files, dirs |-> dirs, call |-> call]

NextResolve == Resolve

SpecResolve == InitResolve /\ [][NextResolve]_vars

\* string-replace edits of one file, over every short content
InitEdit ==
    /\ InitCommon
    /\ \E c \in StringsUpTo(EditContentAlphabet, MaxContentLen) \cup {TextError} :
          files = Disk(c)
    /\ \E p \in {RelA, RelNew}, o \in OldStrings, n \in NewStrings :
          call = [op |-> "input", file_path |-> p, old_string |-> o, new_string |-> n]
    /\ pre = [files |-> files, dirs |-> dirs, call |-> call]

NextEdit == EditRequest

SpecEdit == InitEdit /\ [][NextEdit]_vars

\* line-range reads of one file, over every short content
InitLines ==
    /\ InitCommon
    /\ \E c \in StringsUpTo(ContentAlphabet, MaxContentLen) \cup {FiveLines} :
          files = Disk(c)
    /\ \E p \in {RelA, RelNew}, f \in LineNumbers, t \in LineNumbers :
          call = [op |-> "input", file_path |-> p, from_line |-> f, to_line |-> t]
    /\ pre = [files |-> files, dirs |-> dirs, call |-> call]

NextLines == ReadLinesRequest

SpecLines == InitLines /\ [][NextLines]_vars

\* one search over every corpus and every combination of arguments
InitSearch ==
    /\ NoWorkflow
    /\ opened = {}
    /\ ret = None
    /\ state = None
    /\ nsteps = 0
    /\ ServiceAtStart
    /\ dirs = CorpusDirs
    /\ \E c1 \in SearchTexts, c2 \in SearchTexts : files = Corpus(c1, c2)
    /\ \E term \in SearchTerms,
          cs \in {"absent", "true", "false"},
          re \in {"absent", "true", "false"},
          mx \in MaxResultsValues \cup {-1},
          fe \in {"absent", "py"} :
          call = [op |-> "input", search_term |-> term]
                    @@ Optional(cs # "absent", "case_sensitive", cs = "true")
                    @@ Optional(re # "absent", "regex_mode", re = "true")
                    @@ Optional(mx # -1, "max_results", mx)
                    @@ Optional(fe # "absent", "file_extensions", {<<DOT, "p", "y">>})
    /\ pre = [files |-> files, dirs |-> dirs, call |-> call]

NextSearch == SearchRequest

\* one search over every corpus that holds the unreadable file
InitLocked ==
    /\ NoWorkflow
    /\ opened = {}
    /\ ret = None
    /\ state = None
    /\ nsteps = 0
    /\ ServiceAtStart
    /\ dirs = CorpusDirs
    /\ \E c1 \in SearchTexts : files = LockedCorpus(c1)
    /\ \E term \in SearchTerms,
          re \in {"absent", "true"},
          mx \in MaxResultsValues \cup {-1} :
          call = [op |-> "input", search_term |-> term]
                    @@ Optional(re # "absent", "regex_mode", re = "true")
                    @@ Optional(mx # -1, "max_results", mx)
    /\ pre = [files |-> files, dirs |-> dirs, call |-> call]

NextLocked == SearchRequest

SpecLocked == InitLocked /\ [][NextLocked]_vars

SpecSearch == InitSearch /\ [][NextSearch]_vars

\* the six action adapters, in any order, on every choice of which
\* parameters the planner supplies, on the small project and on an empty one
InitAdapter ==
    /\ NoWorkflow
    /\ dirs = InitialDirs
    /\ opened = {}
    /\ ret = None
    /\ nsteps = 0
    /\ ServiceAtStart
    /\ files \in {AdapterDisk, EmptyProject, ErrorProject}
    /\ state = InitialState
    /\ call = [op |-> <<>>, action_input |-> InitialState.action_input]
    /\ pre = [files |-> files, dirs |-> dirs, call |-> call]

NextAdapter ==
    \/ ReadFileAction
    \/ WriteFileAction
    \/ EditFileAction
    \/ ListDirectoryAction
    \/ ReadFileLinesAction
    \/ SearchTextAction

SpecAdapter == InitAdapter /\ [][NextAdapter]_vars

\* one call of ModelService.switch_provider
SwitchProvider ==
    /\ nsteps < MaxSteps
    /\ \E provider_name \in ProviderNames :
          \E out \in {switch_provider(settings, model_manager, provider_name)} :
             /\ settings' = out.settings
             /\ model_manager' = out.model_manager
             /\ ret' = out.ret
             /\ call' = [op |-> "switch_provider", provider_name |-> provider_name]
    /\ pre' = [files |-> files, dirs |-> dirs, call |-> call,
               settings |-> settings, model_manager |-> model_manager]
    /\ nsteps' = nsteps + 1
    /\ UNCHANGED <<files, dirs, opened, state, node, given, trail>>

\* the workflow: Analyze, then Decide and the node it chooses, over every
\* response of the planner, until the run ends or raises
InitWorkflow ==
    /\ dirs = InitialDirs
    /\ files = AdapterDisk
    /\ opened = {}
    /\ ret = None
    /\ nsteps = 0
    /\ ServiceAtStart
    /\ \E orders \in ScanOrders(Now, ProjectRoot) :
          state = initial_state(WorkflowTask, ProjectRoot,
                                initialize_files_content(Now, ProjectRoot, orders))
    /\ given = state
    /\ node = Edge("__start__")
    /\ trail = <<>>
    /\ call = [op |-> "__start__"]
    /\ pre = [files |-> files, dirs |-> dirs, call |-> call, state |-> state]

NextWorkflow ==
    \/ Analyze
    \/ Decide
    \/ ReadFileNode
    \/ ReadFileLinesNode
    \/ WriteFileNode
    \/ EditFileNode
    \/ ListDirectoryNode
    \/ SearchTextNode
    \/ GenerateSolution

SpecWorkflow == InitWorkflow /\ [][NextWorkflow]_vars

----------------------------------------------------------------------------
(* Vocabulary of the properties                                            *)

FileOps == {"read_file", "read_file_lines", "write_file", "edit_file", "list_directory"}

\* the place in the directory tree that a planner-supplied path names
Target(relative_path) == AbsPath(PathJoin(ProjectRoot, relative_path))

\* the operation handed back an error value
IsErrorValue(op, r) ==
    IF op = "list_directory"
    THEN Len(r) = 1 /\ StartsWith(r[1], ERROR)
    ELSE StartsWith(r, ERROR)

\* the text of a file as a text-mode reader sees it
TextOf(path) == UniversalNewlines(files[path])

\* number of lines of a text: one per line feed, plus an unterminated last line
LineFeeds(text) == {i \in 1..Len(text) : text[i] = LF}

NumLines(text) ==
    Cardinality(LineFeeds(text))
        + (IF text # <<>> /\ text[Len(text)] # LF THEN 1 ELSE 0)

\* position of the k-th line feed of a text
NthLineFeed(text, k) ==
    CHOOSE i \in LineFeeds(text) : Cardinality({j \in LineFeeds(text) : j <= i}) = k

\* the characters of lines first..last (1-indexed, inclusive, last <= NumLines)
LinesOf(text, first, last) ==
    LET start == IF first = 1 THEN 1 ELSE NthLineFeed(text, first - 1) + 1
        stop == IF last <= Cardinality(LineFeeds(text)) THEN NthLineFeed(text, last) ELSE Len(text)
    IN  SubSeq(text, start, stop)

\* the characters of a string
Chars(s) == {s[i] : i \in 1..Len(s)}

----------------------------------------------------------------------------
(* Properties                                                              *)

\* C1 (path safety): whatever the root and the planner-supplied path,
\* _resolve_path either raises the traversal error or returns the root or a
\* descendant of the root in the directory tree.
C1_PathSafety ==
    call.op = "_resolve_path" =>
        \/ ret.raised
        \/ InsideRoot(ret.path, AbsPath(call.project_root))

\* C2 (traversal fails closed): a file operation whose path names a place
\* outside the project root returns an error value, leaves files and
\* directories exactly as they were, and opens no file outside the root.
C2_TraversalFailsClosed ==
    (call.op \in FileOps /\ ~InsideRoot(Target(call.file_path), ProjectRoot)) =>
        /\ IsErrorValue(call.op, ret)
        /\ files = pre.files
        /\ dirs = pre.dirs
        /\ \A q \in opened : InsideRoot(q, ProjectRoot)

\* C3 (write/read round trip): write_file on a path inside the root succeeds,
\* leaves every parent directory in place and the text in the file, and a
\* read_file of the same path right after it returns exactly the text written.
C3_WriteSucceeds ==
    (call.op = "write_file" /\ InsideRoot(Target(call.file_path), ProjectRoot)) =>
        /\ ~StartsWith(ret, ERROR)
        /\ Target(call.file_path) \in DOMAIN files
        /\ WithAncestors(DirName(Target(call.file_path))) \subseteq dirs

C3_WriteReadRoundTrip ==
    /\ C3_WriteSucceeds
    /\ (call.op = "read_file" /\ pre.call.op = "write_file"
            /\ pre.call.file_path = call.file_path
            /\ InsideRoot(Target(call.file_path), ProjectRoot))
        => ret = pre.call.content

C5_EditReplacesEveryOccurrence ==
    (call.op = "edit_file" /\ Target(call.file_path) \in DOMAIN pre.files) =>
        LET before == pre.files[Target(call.file_path)]
        IN  /\ ~StartsWith(ret, ERROR)
            /\ files[Target(call.file_path)] = str_replace(before, call.old_string, call.new_string)
            /\ ~Contains(before, call.old_string) => files = pre.files

\* C6 (hard floor): on an existing file of n lines, read_file_lines returns a
\* range error, and no text of the file, when from_line < 1 or from_line >
\* to_line (invalid range) or from_line > n (out of bounds).
C6_LinesHardFloor ==
    (call.op = "read_file_lines" /\ Target(call.file_path) \in DOMAIN files) =>
        LET n == NumLines(TextOf(Target(call.file_path)))
        IN  /\ (call.from_line < 1 \/ call.from_line > call.to_line)
                => ret \in {ErrLineNumbers, ErrFromAfterTo}
            /\ (call.from_line >= 1 /\ call.from_line <= call.to_line /\ call.from_line > n)
                => ret = ErrExceedsLength

\* lines 100-200 were requested of the five-line file and refused
C6_Witness ==
    /\ call.op = "read_file_lines"
    /\ files[FileA] = FiveLines /\ call.file_path = RelA
    /\ call.from_line = 100 /\ call.to_line = 200
    /\ ret = ErrExceedsLength

\* C7 (soft ceiling): on an existing file of n lines, a request with
\* 1 <= from_line <= to_line and from_line <= n returns exactly the text of
\* lines from_line..min(to_line, n).
C7_LinesSoftCeiling ==
    (call.op = "read_file_lines" /\ Target(call.file_path) \in DOMAIN files) =>
        LET text == TextOf(Target(call.file_path))
            n == NumLines(text)
        IN  (1 <= call.from_line /\ call.from_line <= call.to_line /\ call.from_line <= n)
                => ret = LinesOf(text, call.from_line, Min(call.to_line, n))

\* lines 2-10**9 were requested of the five-line file and the rest of the
\* file came back
C7_Witness ==
    /\ call.op = "read_file_lines"
    /\ files[FileA] = FiveLines /\ call.file_path = RelA
    /\ call.from_line = 2 /\ call.to_line = 1000000000
    /\ ret = Drop(FiveLines, 3)

----------------------------------------------------------------------------
(* Vocabulary of the search properties                                     *)

\* the arguments of the last search, defaults filled in
SearchExtensions == Kw(call, "file_extensions", DefaultExtensions)
SearchCaseSensitive == Kw(call, "case_sensitive", FALSE)
SearchRegexMode == Kw(call, "regex_mode", FALSE)
SearchMaxResults == Kw(call, "max_results", 100)

\* line number ln of a file, as a text-mode reader sees it, terminator included
LineOfFile(path, ln) == LinesOf(TextOf(path), ln, ln)

RECURSIVE Sum(_)
\* the sum of the values of a function with a finite domain
Sum(f) ==
    IF DOMAIN f = {} THEN 0
    ELSE LET x == CHOOSE y \in DOMAIN f : TRUE
         IN  f[x] + Sum([y \in DOMAIN f \ {x} |-> f[y]])

\* number of matches of the last search's pattern in the files it searches
MatchesInFile(path) ==
    LET pattern == PreparePattern(call.search_term, SearchCaseSensitive, SearchRegexMode)
    IN  Sum([ln \in 1..NumLines(TextOf(path)) |->
                Len(FindIter(pattern, LineOfFile(path, ln), 0))])

CorpusMatches ==
    Sum([f \in Candidates(Now, ProjectRoot, SearchExtensions) |-> MatchesInFile(f)])

\* the term compiles: in regex mode it has no unclosed "("
TermCompiles == ~SearchRegexMode \/ "(" \notin Chars(call.search_term)

\* what the term means: character j of the term stands for itself, letter case
\* ignored unless the search is case-sensitive, except that in regex mode a
\* dot stands for any character of the line but its line feed
TermCharMatches(tc, lc) ==
    \/ SearchRegexMode /\ tc = DOT /\ lc # LF
    \/ (~SearchRegexMode \/ tc # DOT) /\
          IF SearchCaseSensitive THEN tc = lc ELSE Lower(tc) = Lower(lc)

TermOccursAt(line, pos) ==
    /\ pos + Len(call.search_term) <= Len(line)
    /\ \A j \in 1..Len(call.search_term) : TermCharMatches(call.search_term[j], line[pos + j])

\* C8 (search bound): when the searched files hold more than max_results = k
\* >= 0 matches, search_text returns exactly k records, total_matches = k and
\* an error that is not None.
C8_SearchBound ==
    (call.op = "search_text" /\ TermCompiles
        /\ SearchMaxResults >= 0 /\ CorpusMatches > SearchMaxResults)
    => /\ Len(ret.results) = SearchMaxResults
       /\ ret.total_matches = SearchMaxResults
       /\ ret.error # None

\* a search with max_results = 3 over a corpus of more than three matches
\* came back cut to three
C8_Witness ==
    /\ call.op = "search_text"
    /\ "max_results" \in DOMAIN call /\ call.max_results = 3
    /\ TermCompiles /\ CorpusMatches >= 4
    /\ Len(ret.results) = 3
    /\ ret.error # None

\* C9 (pattern semantics): every match reported is an occurrence of the term
\* under the meaning its mode gives it (literal: every character for itself;
\* regex: a dot for any character; letter case ignored unless case_sensitive),
\* and a search that was not cut short misses no occurrence: each one is
\* reported or overlaps a reported match of its line.
C9_PatternSemantics ==
    (call.op = "search_text" /\ TermCompiles) =>
        /\ \A i \in 1..Len(ret.results) :
              LET rec == ret.results[i]
                  line == LineOfFile(PathJoin(ProjectRoot, rec.file_path), rec.line_number)
              IN  /\ TermOccursAt(line, rec.match_start)
                  /\ rec.match_end = rec.match_start + Len(call.search_term)
                  /\ rec.matched_text = SubSeq(line, rec.match_start + 1, rec.match_end)
        /\ ret.error = None =>
              \A f \in Candidates(Now, ProjectRoot, SearchExtensions) :
                \A ln \in 1..NumLines(TextOf(f)) :
                  \A pos \in 0..Len(LineOfFile(f, ln)) :
                    TermOccursAt(LineOfFile(f, ln), pos) =>
                      \E i \in 1..Len(ret.results) :
                        LET rec == ret.results[i]
                        IN  /\ PathJoin(ProjectRoot, rec.file_path) = f
                            /\ rec.line_number = ln
                            /\ \/ rec.match_start = pos
                               \/ (rec.match_start < pos + Len(call.search_term)
                                      /\ pos < rec.match_end)

ReportedTexts == {ret.results[i].matched_text : i \in 1..Len(ret.results)}

\* the regex a.b, letter case ignored by default, found "a.b", "axb" and "A.B"
C9_Witness ==
    /\ call.op = "search_text"
    /\ call.search_term = TermADotB
    /\ "case_sensitive" \notin DOMAIN call
    /\ "regex_mode" \in DOMAIN call /\ call.regex_mode
    /\ {<<"a", "x", "b">>, <<"A", DOT, "B">>, TermADotB} \subseteq ReportedTexts

----------------------------------------------------------------------------
(* Adapter parameter validation                                            *)

\* the parameters each adapter needs from action_input
Required(action) ==
    IF action = <<"read_file">> THEN {"file_path"}
    ELSE IF action = <<"read_file_lines">> THEN {"file_path", "from_line", "to_line"}
    ELSE IF action = <<"write_file">> THEN {"file_path", "content"}
    ELSE IF action = <<"edit_file">> THEN {"file_path", "old_string", "new_string"}
    ELSE IF action = <<"search_text">> THEN {"search_term"}
    ELSE {}

\* the parameters the last adapter run needed and did not get
MissingNow == Required(call.op) \ DOMAIN call.action_input

\* the action_output is an error message about parameters
IsParameterError(output) ==
    /\ StartsWith(output, ERROR)
    /\ \/ Contains(output, <<" parameter is missing for ">>)
       \/ Contains(output, <<": from_line and to_line parameters are required for read_file_lines action.">>)

\* C10: whenever an adapter has run with one of its required parameters
\* absent from action_input, the action_output of the state it returned is
\* an error message about the missing parameter.
C10_MissingParameterRejected ==
    (call.op # <<>> /\ MissingNow # {}) => IsParameterError(state.action_output)

----------------------------------------------------------------------------
(* Vocabulary of the workflow properties                                   *)

\* the node that ran last
LastRan == IF trail = <<>> THEN "none" ELSE trail[Len(trail)]

\* the name of a node, character by character
Spelt(n) ==
    IF n = "read_file" THEN NameReadFile
    ELSE IF n = "read_file_lines" THEN NameReadFileLines
    ELSE IF n = "write_file" THEN NameWriteFile
    ELSE IF n = "edit_file" THEN NameEditFile
    ELSE IF n = "list_directory" THEN NameListDirectory
    ELSE IF n = "search_text" THEN NameSearchText
    ELSE <<>>

\* a next_action that is one of the six action names, or finish
IsActionName(next_action) == next_action.t = "str" /\ next_action.v \in ActionNames
IsFinish(next_action) == next_action = StrVal(NameFinish)

\* number of times node n has run
TimesRan(n) == Cardinality({i \in 1..Len(trail) : trail[i] = n})

RanBefore == IF Len(trail) < 2 THEN "none" ELSE trail[Len(trail) - 1]

\* C12: after a Decide step that leaves one of the six action names the next
\* node is the adapter of that name, after one that leaves finish it is
\* GenerateSolution; the adapter that runs is handed the state, action_input
\* included, that the Decide step just before it returned.
C12_DispatchByNextAction ==
    /\ (LastRan = "determine_next_action" /\ IsActionName(state.next_action))
        => (node \in AdapterNodes /\ Spelt(node) = state.next_action.v)
    /\ (LastRan = "determine_next_action" /\ IsFinish(state.next_action))
        => node = "generate_solution"
    /\ LastRan \in AdapterNodes
        => /\ RanBefore = "determine_next_action"
           /\ pre.call.op = "determine_next_action"
           /\ pre.state.next_action = StrVal(Spelt(LastRan))
    /\ LastRan = "generate_solution"
        => (RanBefore = "determine_next_action" /\ IsFinish(pre.state.next_action))

\* write_file was decided inside a code fence, the write_file adapter ran on
\* that decision's parameters and the file is on disk
C12_Witness ==
    /\ LastRan = "write_file"
    /\ pre.state.action_input = [file_path |-> StrVal(RelNew), content |-> StrVal(TextAB)]
    /\ Target(RelNew) \in DOMAIN files
    /\ node = "determine_next_action"

\* C13: the workflow starts at Analyze and goes from Analyze to Decide; after
\* each execution of an adapter, with an error or without, Decide runs next
\* and the run has not ended.
C13_DecideAfterEveryAction ==
    /\ trail # <<>> => trail[1] = "analyze_task"
    /\ LastRan = "analyze_task" => node = "determine_next_action"
    /\ LastRan \in AdapterNodes => node = "determine_next_action"

\* the trail of a run of n decisions for an action and the decision to finish
Interleaved(n) ==
    /\ Len(trail) = 2 * n + 3
    /\ trail[1] = "analyze_task"
    /\ \A i \in 1..n : trail[2 * i] = "determine_next_action" /\ trail[2 * i + 1] \in AdapterNodes
    /\ trail[2 * n + 2] = "determine_next_action"
    /\ trail[2 * n + 3] = "generate_solution"

\* C14: a run in which every decision was one of the six actions or finish
\* does not stop before the decision to finish; after n decisions for an
\* action and the decision to finish it has run n adapters interleaved with
\* n + 1 Decide steps, then GenerateSolution, and it stops there.
C14_Termination ==
    /\ node = "raised" => LastRan \notin AdapterNodes
    /\ LastRan = "generate_solution" => node = "__end__"
    /\ node = "__end__" => \E n \in 0..Len(trail) : Interleaved(n)

\* C15: whatever the planner's response, the adapter that Decide dispatches
\* to returns without raising and leaves a text in action_output.
C15_NeverCrashOnMalformedInput ==
    LastRan \in AdapterNodes
        => /\ node # "raised"
           /\ state.action_output \notin {None, <<>>}

\* the text the fallback parser reads as the action name: what follows the
\* first marker on its line
NamedInText(text) ==
    LET parts == SplitFirst(text, ActionMarker)
    IN  IF Len(parts) = 1 THEN <<>> ELSE Strip(SplitFirst(Strip(parts[2]), LF)[1])

\* a response that cannot be parsed into an action: JSON that is no object,
\* or a text that is not JSON and names no action
Unparseable(content) ==
    IF content.json THEN content.value.t # "dict" ELSE NamedInText(content.text) = <<>>

\* C16: after a Decide step on a response that cannot be parsed into an
\* action, next_action is finish, action_input is empty and thought_process
\* is the previous one with a rationale appended.
C16_UnparseableMeansFinish ==
    (LastRan = "determine_next_action" /\ Unparseable(call.content))
    => /\ state.next_action = StrVal(NameFinish)
       /\ state.action_input = EmptyDict
       /\ Len(state.thought_process) > Len(pre.state.thought_process)
       /\ StartsWith(state.thought_process, pre.state.thought_process)

\* C17: the state value a step was given reads, after the step, as it read
\* before the step, in every field.
C17_CopyOnWrite ==
    trail # <<>> => given = pre.state

\* C18: final_answer is null until GenerateSolution has run; GenerateSolution
\* sets it, runs at most once and is the last node of the run.
C18_FinalAnswerSetOnce ==
    /\ TimesRan("generate_solution") = 0 => state.final_answer = None
    /\ TimesRan("generate_solution") <= 1
    /\ LastRan = "generate_solution"
        => /\ state.final_answer # None
           /\ pre.state.final_answer = None
           /\ node = "__end__"
    /\ TimesRan("generate_solution") = 1 => LastRan = "generate_solution"
    /\ node = "__end__" => ~ENABLED NextWorkflow

\* a file was read, then the planner finished: the answer is set and the run is over
C18_Witness ==
    /\ trail = <<"analyze_task", "determine_next_action", "read_file",
                 "determine_next_action", "generate_solution">>
    /\ state.final_answer = <<"d", "o", "n", "e">>
    /\ node = "__end__"

\* the parameter that holds the path of the adapter that ran last
PathKey == IF LastRan = "list_directory" THEN "directory_path" ELSE "file_path"

\* the path the planner supplied in the decision the last adapter ran on
\* (file_path, or directory_path for list_directory), <<>> when it gave none
SuppliedPath ==
    LET content == pre.call.content
        parameters == IF content.json /\ content.value.t = "dict"
                      THEN Get(content.value.v, "parameters", DictVal(EmptyDict))
                      ELSE DictVal(EmptyDict)
    IN  IF parameters.t = "dict" THEN Get(parameters.v, PathKey, StrVal(<<>>)).v ELSE <<>>

IsAbsolute(p) == p # <<>> /\ p[1] = SLASH

TraversalRefused == Contains(state.action_output, <<": Attempted path traversal">>)

\* the adapter that ran last was handed the path as supplied and worked on
\* exactly that path
CarriedOutOn(p) ==
    /\ Get(pre.state.action_input, PathKey, StrVal(<<>>)) = StrVal(p)
    /\ ~TraversalRefused
    /\ (LastRan = "read_file" /\ p \in DOMAIN pre.files)
        => /\ state.files_content[p] = UniversalNewlines(pre.files[p])
           /\ state.action_output = <<"Successfully read content of ">> \o p \o <<".">>
    /\ (LastRan = "write_file" /\ DirName(p) \in pre.dirs /\ p \notin pre.dirs)
        => /\ p \in DOMAIN files
           /\ files[p] = pre.state.action_input.content.v
    /\ (LastRan = "list_directory" /\ p \in pre.dirs)
        => ~Contains(state.action_output, ERROR)

\* C19 as claimed: an absolute path supplied by the planner reaches the
\* adapter unchanged and the adapter carries the operation out on that path.
C19_AbsolutePathsAccepted ==
    (LastRan \in AdapterNodes /\ node # "raised" /\ IsAbsolute(SuppliedPath))
        => CarriedOutOn(SuppliedPath)

\* C19: an absolute path inside the project root reaches the adapter
\* unchanged and the adapter carries the operation out on that path.
C19_AbsolutePathsInsideRootAccepted ==
    (LastRan \in AdapterNodes /\ node # "raised"
        /\ IsAbsolute(SuppliedPath) /\ InsideRoot(AbsPath(SuppliedPath), ProjectRoot))
        => CarriedOutOn(SuppliedPath)

\* the file a was read under its absolute path and its content is stored
\* under that path
C19_Witness ==
    /\ LastRan = "read_file"
    /\ SuppliedPath = AbsInside
    /\ AbsInside \in DOMAIN state.files_content
    /\ state.files_content[AbsInside] = TextLines

\* the file_path the last adapter worked on
EditedPath == Get(pre.state.action_input, "file_path", StrVal(<<>>)).v

\* C20: after edit_file_action has edited the file p (the file is on disk
\* with its occurrences of old_string replaced), action_output confirms the
\* success and files_content[p] is the content of the file on disk.
C20_EditAdapterRefresh ==
    (LastRan = "edit_file" /\ node # "raised" /\ EditedPath # <<>>
        /\ Target(EditedPath) \in DOMAIN pre.files
        /\ files[Target(EditedPath)] # pre.files[Target(EditedPath)])
    => /\ state.action_output
            = <<"Edit file ">> \o EditedPath \o <<": ">>
                \o <<"Successfully wrote to ">> \o EditedPath
       /\ EditedPath \in DOMAIN state.files_content
       /\ state.files_content[EditedPath] = files[Target(EditedPath)]


----------------------------------------------------------------------------
(* More properties of the search                                           *)

\* C21 (invalid regex): a search in regex mode whose term does not compile
\* returns an error that reports the invalid pattern, no match, no file
\* searched, and has opened no file.
C21_InvalidRegex ==
    (call.op = "search_text" /\ ~TermCompiles)
    => /\ StartsWith(ret.error, <<"Invalid regex pattern">>)
       /\ ret.total_matches = 0
       /\ ret.files_searched = 0
       /\ ret.results = <<>>
       /\ opened = {}

\* the term "a(" was searched in regex mode over files that hold "a"
C21_Witness ==
    /\ call.op = "search_text"
    /\ SearchRegexMode /\ call.search_term = <<"a", "(">>
    /\ files[FileM] = TextAxb
    /\ ret.error = <<"Invalid regex pattern">>


\* the names of the directories between the root and the file
DirsAbove(f) ==
    {PathComps(f)[i] : i \in (Len(PathComps(ProjectRoot)) + 1)..(Len(PathComps(f)) - 1)}

\* a file below a directory whose name starts with a dot or is one of
\* __pycache__, node_modules, build, dist, target
InPrunedSubtree(f) ==
    \E name \in DirsAbove(f) : name[1] = DOT \/ name \in SkippedDirNames

\* the file a match record names
FileOf(rec) == PathJoin(ProjectRoot, rec.file_path)

\* C22 (pruned subtrees): no file below a hidden or build directory, at any
\* depth, is opened by a search, counted in files_searched or named by a
\* match record.
C22_PrunedSubtreesNeverSearched ==
    call.op = "search_text" =>
        /\ \A f \in DOMAIN files : InPrunedSubtree(f) =>
              /\ f \notin opened
              /\ \A i \in 1..Len(ret.results) : FileOf(ret.results[i]) # f
        /\ ret.files_searched
              <= Cardinality({f \in DOMAIN files : InsideRoot(f, ProjectRoot) /\ ~InPrunedSubtree(f)})

\* "a.b" was found in the files of the root while the hidden, build and dist
\* directories, whose files hold it too, were left alone
C22_Witness ==
    /\ call.op = "search_text"
    /\ call.search_term = TermADotB
    /\ ret.total_matches > 0 /\ ret.error = None
    /\ FileM \in opened /\ FileN \in opened
    /\ opened \cap {FileHiddenDir, FileBuildDir, FileDeep} = {}


\* C24 (truncation marker): a search stops as soon as it has collected
\* max_results matches and then carries an error; so every result with
\* total_matches = max_results has an error that is not None.
C24_TruncationMarker ==
    (call.op = "search_text" /\ TermCompiles /\ ret.total_matches = SearchMaxResults)
    => ret.error # None

\* a line without its terminator
WithoutTerminator(line) ==
    IF line # <<>> /\ line[Len(line)] = LF THEN SubSeq(line, 1, Len(line) - 1) ELSE line

\* C27 (match records): every record names a file by its path relative to
\* the root and a line of that file by its 1-indexed number, holds that line
\* without its terminator, and offsets 0 <= match_start <= match_end <=
\* length(line_content) with line_content[match_start:match_end] = matched_text.
C27_MatchRecordsWellFormed ==
    (call.op = "search_text" /\ TermCompiles) =>
        \A i \in 1..Len(ret.results) :
            LET rec == ret.results[i]
            IN  /\ rec.file_path # <<>> /\ rec.file_path[1] # SLASH
                /\ FileOf(rec) \in DOMAIN files
                /\ rec.line_number \in 1..NumLines(TextOf(FileOf(rec)))
                /\ rec.line_content = WithoutTerminator(LineOfFile(FileOf(rec), rec.line_number))
                /\ 0 <= rec.match_start /\ rec.match_start <= rec.match_end
                /\ rec.match_end <= Len(rec.line_content)
                /\ rec.matched_text = SubSeq(rec.line_content, rec.match_start + 1, rec.match_end)

\* the files a search is to read: those that pass the filters
Searchable == Candidates(Now, ProjectRoot, SearchExtensions)

\* C26 (unreadable files): a file that passes the filters but cannot be
\* opened is skipped: the search sets no error because of it, the other files
\* are still searched (all of them unless the search was cut at the limit),
\* and files_searched is the number of files that were opened.
C26_UnreadableFilesSkipped ==
    (call.op = "search_text" /\ TermCompiles /\ Searchable \cap NoReadPermission # {})
    => /\ ret.error = None \/ StartsWith(ret.error, <<"Search stopped at results limit">>)
       /\ ret.error = None => Searchable \ NoReadPermission \subseteq opened
       /\ \A i \in 1..Len(ret.results) : FileOf(ret.results[i]) \notin NoReadPermission
       /\ ret.files_searched = Cardinality(opened)

----------------------------------------------------------------------------
(* More properties of the adapters                                         *)

\* the disk the last adapter started from
Before == [files |-> pre.files, dirs |-> pre.dirs]

\* the directory_path the last list_directory_action worked on
ListedPath == Get(call.action_input, "directory_path", StrVal(<<DOT>>)).v

\* a directory that exists and holds no file and no directory
IsEmptyDirectory(disk, d) ==
    /\ d \in disk.dirs
    /\ \A x \in (DOMAIN disk.files \cup disk.dirs) \ {d, <<SLASH>>} : DirName(x) # d

\* C23 (empty directory listing): list_directory on an empty directory
\* returns the empty sequence, and list_directory_action on it, with "." as
\* the default directory_path, sets action_output to the message that the
\* directory is empty, which reports no failure.
C23_EmptyDirectoryListing ==
    (call.op = <<"list_directory">> /\ IsEmptyDirectory(Before, Target(ListedPath)))
    => /\ \A listing \in Listings(Before, ProjectRoot, ListedPath) :
             list_directory(Before, ProjectRoot, ListedPath, listing).ret = <<>>
       /\ state.action_output
            = <<"List directory '">> \o ListedPath \o <<"': ">> \o <<"Empty directory">>
       /\ ~Contains(state.action_output, <<"Failed - ">>)
       /\ ~Contains(state.action_output, ERROR)

\* the empty project root was listed without a directory_path
C23_Witness ==
    /\ call.op = <<"list_directory">>
    /\ "directory_path" \notin DOMAIN call.action_input
    /\ pre.files = EmptyProject
    /\ state.action_output = <<"List directory '", DOT, "': ", "Empty directory">>


\* the search_text_action that ran last: its term, its limit and the record
\* it stored
ActionTerm == Get(call.action_input, "search_term", StrVal(<<>>)).v
ActionMaxResults == Get(call.action_input, "max_results", IntVal(100)).v
StoredSearch == state.files_content[SearchKey(ActionTerm)]

\* the last step was a search that was cut at max_results
SearchWasTruncated ==
    /\ call.op = <<"search_text">>
    /\ ActionTerm # <<>>
    /\ SearchKey(ActionTerm) \in DOMAIN state.files_content
    /\ StoredSearch.total_matches = ActionMaxResults
    /\ StartsWith(StoredSearch.error, <<"Search stopped at results limit">>)

\* C25 (truncation at the adapter): when the search was cut at max_results,
\* the record with its max_results matches is stored under
\* 'search_results:<term>' and action_output reports the matches found; it
\* does not report the search as failed.
C25_TruncationIsNotAFailure ==
    SearchWasTruncated
    => /\ Len(StoredSearch.results) = ActionMaxResults
       /\ ~Contains(state.action_output, <<"': Failed - ">>)
       /\ Contains(state.action_output, <<" matches found">>)


\* the file_path the last adapter was given, and the line numbers
ActionPath == Get(call.action_input, "file_path", StrVal(<<>>)).v
ActionFromLine == ToInt(Get(call.action_input, "from_line", NoneVal))
ActionToLine == ToInt(Get(call.action_input, "to_line", NoneVal))

\* the last read_file_lines_action was given two line numbers
LinesGiven ==
    /\ {"from_line", "to_line"} \subseteq DOMAIN call.action_input
    /\ call.action_input["from_line"].t # "none"
    /\ call.action_input["to_line"].t # "none"
    /\ ~ActionFromLine.raised /\ ~ActionToLine.raised

\* the ways the file operation behind an adapter fails on the disk it found
PathRefused == ~InsideRoot(Target(ActionPath), ProjectRoot)
FileNotFound == Target(ActionPath) \notin DOMAIN pre.files
BadRange ==
    \/ ActionFromLine.v < 1 \/ ActionToLine.v < 1
    \/ ActionFromLine.v > ActionToLine.v
    \/ ~FileNotFound /\ ActionFromLine.v > NumLines(pre.files[Target(ActionPath)])

\* the last step was an adapter whose file operation failed
OperationFailed ==
    /\ ActionPath # <<>>
    /\ \/ call.op \in {<<"read_file">>, <<"edit_file">>} /\ (PathRefused \/ FileNotFound)
       \/ call.op = <<"write_file">> /\ PathRefused
       \/ call.op = <<"read_file_lines">> /\ LinesGiven
             /\ (PathRefused \/ FileNotFound \/ BadRange)

\* the key of files_content the last adapter stores under
ContentKey ==
    IF call.op = <<"read_file_lines">>
    THEN LinesKey(ActionPath, ActionFromLine.v, ActionToLine.v)
    ELSE ActionPath

\* C28 (adapter error placeholders): whenever the file operation behind
\* read_file_action, read_file_lines_action, write_file_action or
\* edit_file_action fails, the returned state has a failure text in
\* action_output and an error-prefixed placeholder under the action's
\* content key in files_content, replacing what the key held before.
C28_ErrorPlaceholders ==
    OperationFailed
    => /\ Contains(state.action_output, ERROR)
       /\ ContentKey \in DOMAIN state.files_content
       /\ StartsWith(state.files_content[ContentKey], ERROR)


----------------------------------------------------------------------------
(* More properties of the workflow                                         *)

\* the keys of files_content before and after the last step
KeysBefore == DOMAIN pre.state.files_content
KeysAfter == DOMAIN state.files_content

\* C29 (files_content is append-only): across every step of the workflow
\* (Analyze, Decide, each adapter, GenerateSolution) the key set of
\* files_content after the step is a superset of the key set before it.
C29_FilesContentAppendOnly ==
    trail # <<>> => KeysBefore \subseteq KeysAfter

\* an adapter added a key to the two or more it found
C29_Witness ==
    /\ LastRan \in AdapterNodes
    /\ Cardinality(KeysBefore) >= 2
    /\ KeysBefore # KeysAfter

\* C30 (fixed fields): task and project_root have in every state of a run the
\* values of the initial state, and current_plan, once Analyze has set it, is
\* not changed by any later Decide, adapter or GenerateSolution step.
C30_FixedFields ==
    /\ state.task = WorkflowTask
    /\ state.project_root = ProjectRoot
    /\ LastRan = "analyze_task" => state.current_plan # None
    /\ LastRan \notin {"none", "analyze_task"}
        => /\ trail[1] = "analyze_task"
           /\ state.current_plan = pre.state.current_plan
           /\ state.current_plan # None

\* the run went through Analyze, a Decide, an adapter and GenerateSolution
\* with the plan Analyze set
C30_Witness ==
    /\ LastRan = "generate_solution"
    /\ \E i \in 1..Len(trail) : trail[i] \in AdapterNodes
    /\ state.current_plan \notin {None, DefaultPlan}


\* what the last step added at the end of thought_process
ThoughtAdded ==
    SubSeq(state.thought_process, Len(pre.state.thought_process) + 1, Len(state.thought_process))

\* the head of a transcript entry that names the action `name`
EntryHead(name) == <<LF, LF, "Next Action Reasoning (">> \o Format(name) \o <<"): ">>

\* C31 (thought_process is an append-only transcript): after Analyze has set
\* it, every later step leaves thought_process with its previous value as a
\* prefix; a Decide step appends one entry that names the chosen action and
\* its rationale; adapters and GenerateSolution leave it unchanged.
C31_ThoughtProcessAppendOnly ==
    /\ LastRan = "analyze_task" => state.thought_process = call.content
    /\ LastRan \notin {"none", "analyze_task"}
        => StartsWith(state.thought_process, pre.state.thought_process)
    /\ LastRan = "determine_next_action"
        => StartsWith(ThoughtAdded, EntryHead(state.next_action))
    /\ LastRan \in AdapterNodes \cup {"generate_solution"}
        => state.thought_process = pre.state.thought_process

\* the second Decide of a run added its entry after the first one's, and
\* GenerateSolution then left both in place
C31_Witness ==
    /\ LastRan = "generate_solution"
    /\ TimesRan("determine_next_action") = 2
    /\ Len(state.thought_process) > 8
    /\ Cardinality({i \in 1..Len(state.thought_process) :
                       state.thought_process[i] = "Next Action Reasoning ("}) = 2


\* the action name and the parameters the planner's response `content` declares
DeclaredAction(content) ==
    IF content.json
    THEN IF content.value.t = "dict"
         THEN Get(content.value.v, "action", StrVal(NameFinish))
         ELSE StrVal(NameFinish)
    ELSE IF Len(SplitFirst(content.text, ActionMarker)) > 1
         THEN StrVal(NamedInText(content.text))
         ELSE StrVal(NameFinish)

DeclaredParameters(content) ==
    IF content.json /\ content.value.t = "dict"
    THEN Unwrap(Get(content.value.v, "parameters", DictVal(EmptyDict)))
    ELSE EmptyDict

\* `text` is one of the texts the adapter `n` writes about what it did
DescribesAction(n, text) ==
    \/ text = MissingParameter(IF n = "search_text" THEN <<"search_term">> ELSE <<"file_path">>,
                               <<n>>)
    \/ n = "read_file"
         /\ (StartsWith(text, <<"Read file ">>) \/ StartsWith(text, <<"Successfully read content of ">>))
    \/ n = "read_file_lines"
         /\ \/ StartsWith(text, <<"Read file lines ">>)
            \/ StartsWith(text, <<"Successfully read lines ">>)
            \/ StartsWith(text, ERROR \o <<": from_line and to_line parameters are required for read_file_lines action.">>)
            \/ StartsWith(text, ERROR \o <<": from_line and to_line must be valid integers.">>)
    \/ n = "write_file" /\ StartsWith(text, <<"Write file ">>)
    \/ n = "edit_file" /\ StartsWith(text, <<"Edit file ">>)
    \/ n = "list_directory"
         /\ (StartsWith(text, <<"List directory ">>) \/ StartsWith(text, <<"List directory '">>))
    \/ n = "search_text" /\ StartsWith(text, <<"Search for '">>)

\* C32 (per-cycle overwrite): each Decide step sets next_action and
\* action_input to exactly the action name and the parameters of the
\* planner's latest response, and after each execution of an adapter, on every
\* path, action_output is a text describing the action just executed.
C32_PerCycleOverwrite ==
    /\ LastRan = "determine_next_action"
        => /\ state.next_action = DeclaredAction(call.content)
           /\ state.action_input = DeclaredParameters(call.content)
    /\ LastRan \in AdapterNodes
        => /\ state.action_output # None
           /\ DescribesAction(LastRan, state.action_output)


\* the run has not started: the state is the one main built
NotStarted == trail = <<>> /\ node = "analyze_task"

\* the fields that are null until a step sets them
NullFields ==
    /\ state.current_plan = None
    /\ state.thought_process = None
    /\ state.next_action = NoneVal
    /\ state.action_input = NoneVal
    /\ state.action_output = None
    /\ state.final_answer = None

\* C33 (initial state): the state handed to the workflow has task and
\* project_root set, files_content an empty mapping, and current_plan,
\* thought_process, next_action, action_input, action_output and final_answer null.
C33_InitialStateEmpty ==
    NotStarted
    => /\ state.task = WorkflowTask /\ state.project_root = ProjectRoot
       /\ DOMAIN state.files_content = {}
       /\ NullFields

\* the file or directory of the project that a key of the scan names
ScannedPath(k) == AbsPath(PathJoin(ProjectRoot, k))

\* C33 as the code has it: the state handed to the workflow has task and
\* project_root set, the six fields null, and files_content holding the scan
\* of the project: under "." the listing of the root, and otherwise only keys
\* that name a file or directory at most max_depth levels below the root.
C33_InitialStateScanned ==
    NotStarted
    => /\ state.task = WorkflowTask /\ state.project_root = ProjectRoot
       /\ state.messages = <<>>
       /\ NullFields
       /\ <<DOT>> \in DOMAIN state.files_content
       /\ \E listing \in Listings(Now, ProjectRoot, <<DOT>>) :
             state.files_content[<<DOT>>]
                = <<"Project root containing: ">> \o JoinWith(listing, ", ")
       /\ \A k \in DOMAIN state.files_content \ {<<DOT>>} :
             /\ ScannedPath(k) \in DOMAIN files \cup dirs
             /\ Len(PathComps(ScannedPath(k))) - Len(PathComps(ProjectRoot)) \in 1..max_depth

\* the scan noted the source file m.py of the project
C33_Witness ==
    /\ NotStarted
    /\ <<"m", DOT, "p", "y">> \in DOMAIN state.files_content
    /\ state.files_content[<<"m", DOT, "p", "y">>] = <<"File exists (content not loaded initially)">>


----------------------------------------------------------------------------
(* The model service                                                       *)

\* the model service, over every environment: which API keys are set, which
\* provider packages are installed, which provider the settings name
InitProvider ==
    /\ NoWorkflow
    /\ dirs = InitialDirs
    /\ files = EmptyProject
    /\ opened = {}
    /\ ret = None
    /\ state = None
    /\ nsteps = 0
    /\ \E active \in ModelProviders, ak \in BOOLEAN, gk \in BOOLEAN :
          settings = [ACTIVE_PROVIDER |-> active, ANTHROPIC_API_KEY |-> ak,
                      GOOGLE_API_KEY |-> gk]
    /\ \E aa \in BOOLEAN, ga \in BOOLEAN :
          model_manager = refresh_from_config(settings, NewModelManager(aa, ga))
    /\ call = [op |-> "none"]
    /\ pre = [files |-> files, dirs |-> dirs, call |-> call,
              settings |-> settings, model_manager |-> model_manager]

NextProvider == SwitchProvider

SpecProvider == InitProvider /\ [][NextProvider]_vars

\* the provider the last switch_provider was asked for, in lower case
Requested == LowerName(call.provider_name.v)

\* the provider name is unknown, or the provider asked for has no API key
CannotSwitch ==
    \/ call.provider_name.t # "str"
    \/ Requested \notin ModelProviders
    \/ Requested = ANTHROPIC /\ ~pre.settings.ANTHROPIC_API_KEY
    \/ Requested = GOOGLE /\ ~pre.settings.GOOGLE_API_KEY

\* C34: whenever switch_provider(name) returns True, get_current_provider()
\* afterwards is name; when the name is unknown or the provider asked for has
\* no API key, it returns False and the active provider is unchanged.
C34_SwitchProviderTruthful ==
    call.op = "switch_provider"
    => /\ ret = TRUE
          => /\ call.provider_name.t = "str"
             /\ get_current_provider(model_manager) = Requested
       /\ CannotSwitch
          => /\ ret = FALSE
             /\ get_current_provider(model_manager) = get_current_provider(pre.model_manager)
             /\ get_active_provider(settings) = get_active_provider(pre.settings)

----------------------------------------------------------------------------
(* Truthful reports and frames of the adapters                             *)

\* the file the last adapter was given exists inside the root: it can be read
FileReadable == ~PathRefused /\ ~FileNotFound

\* the directory the last list_directory_action was given exists inside the root
DirectoryListable ==
    /\ InsideRoot(Target(ListedPath), ProjectRoot)
    /\ Target(ListedPath) \in pre.dirs

\* C35 (truthful reports whatever the file holds): for every file content,
\* also one that begins with "Error", read_file_action reports success
\* exactly when the file was read, edit_file changes the file and reports
\* success exactly when the file was read and written, and
\* list_directory_action reports a listing, not a failure, exactly when the
\* directory was listed, whatever the name of its first entry.
C35_TruthfulReports ==
    /\ (call.op = <<"read_file">> /\ ActionPath # <<>>)
        => (FileReadable
              <=> state.action_output = <<"Successfully read content of ">> \o ActionPath \o <<".">>)
    /\ (call.op = <<"edit_file">> /\ ActionPath # <<>>)
        => /\ FileReadable
                <=> Contains(state.action_output, <<"Successfully wrote to ">>)
           /\ FileReadable
                => files[Target(ActionPath)]
                     = str_replace(UniversalNewlines(pre.files[Target(ActionPath)]),
                                   Get(call.action_input, "old_string", StrVal(<<>>)).v,
                                   Get(call.action_input, "new_string", StrVal(<<>>)).v)
    /\ call.op = <<"list_directory">>
        => (DirectoryListable <=> ~Contains(state.action_output, <<": Failed - ">>))

\* the files and directories under the project root, with what they hold
UnderRoot(disk) == [p \in {q \in DOMAIN disk : InsideRoot(q, ProjectRoot)} |-> disk[p]]

\* C36 (a rejected request changes no file): whenever write_file_action or
\* edit_file_action has run with a required parameter (file_path, content,
\* old_string or new_string) absent from action_input, the files and the
\* directories under the project root are the ones there were before the
\* step: none was created, truncated or modified.
C36_RejectedRequestChangesNoFile ==
    (call.op \in {<<"write_file">>, <<"edit_file">>} /\ MissingNow # {})
        => /\ UnderRoot(files) = UnderRoot(pre.files)
           /\ {d \in dirs : InsideRoot(d, ProjectRoot)}
                = {d \in pre.dirs : InsideRoot(d, ProjectRoot)}

\* the files_content keys that are plain paths: neither a line range
\* 'file_path:from-to' nor 'search_results:<term>'
PlainKeys == {k \in DOMAIN state.files_content : ~Contains(k, <<":">>)}

\* the entry under a plain key was stored by an action that succeeded: it is
\* not one of the error texts the adapters store
StoredBySuccess(k) == ~StartsWith(state.files_content[k], ERROR)

\* what reading the file named by a key gives now
OnDisk(k) == UniversalNewlines(files[Target(k)])

\* C37 (files_content agrees with the disk): after any sequence of adapter
\* runs, every files_content entry that a successful action stored under a
\* plain path key equals the present content of the file the key names,
\* also when the file has been addressed as 'a' and as './a'.
C37_FilesContentAgreesWithDisk ==
    \A k \in PlainKeys :
        StoredBySuccess(k)
            => /\ Target(k) \in DOMAIN files
               /\ state.files_content[k] = OnDisk(k)

\* the adapters of the operations that only read
ReadOnlyActions ==
    {<<"read_file">>, <<"read_file_lines">>, <<"list_directory">>, <<"search_text">>}

----------------------------------------------------------------------------
(* The frame of an adapter                                                 *)

\* what the adapter that ran last was given
GivenAction == pre.state.next_action.v
GivenInput == pre.state.action_input
GivenPath == Get(GivenInput, "file_path", StrVal(<<>>)).v

\* the line numbers it was given are there and convert to integers
GivenLines ==
    /\ ~Falsy(Get(GivenInput, "file_path", StrVal(<<>>)))
    /\ Get(GivenInput, "from_line", NoneVal).t # "none"
    /\ Get(GivenInput, "to_line", NoneVal).t # "none"
    /\ ~ToInt(Get(GivenInput, "from_line", NoneVal)).raised
    /\ ~ToInt(Get(GivenInput, "to_line", NoneVal)).raised

\* the files_content keys an adapter may store under: the key of its own
\* action, none for list_directory, for an adapter that raised and for an
\* error about its parameters
OwnKeys ==
    IF node = "raised" \/ ~IsMapping(GivenInput) THEN {}
    ELSE IF StartsWith(state.action_output, ERROR) THEN {}
    ELSE IF LastRan \in {"read_file", "write_file", "edit_file"} THEN {GivenPath}
    ELSE IF LastRan = "read_file_lines" /\ GivenLines
    THEN {LinesKey(GivenPath, ToInt(GivenInput["from_line"]).v, ToInt(GivenInput["to_line"]).v)}
    ELSE IF LastRan = "search_text"
    THEN {SearchKey(Get(GivenInput, "search_term", StrVal(<<>>)).v)}
    ELSE {}

\* the keys whose entry the last step added or changed
KeysChanged ==
    {k \in KeysAfter : k \notin KeysBefore \/ state.files_content[k] # pre.state.files_content[k]}

\* C39 (adapter frame): an adapter execution changes nothing of the state
\* but action_output and at most one files_content entry, the one under the
\* key of its own action (file_path for read, write and edit,
\* 'file_path:from-to' for read_file_lines, 'search_results:<term>' for
\* search_text, none for list_directory and for an error about a missing
\* parameter); next_action, action_input, every other field and every other
\* files_content entry are as they were.
C39_AdapterFrame ==
    LastRan \in AdapterNodes
        => /\ \A f \in DOMAIN state \ {"action_output", "files_content"} :
                 state[f] = pre.state[f]
           /\ KeysBefore \subseteq KeysAfter
           /\ KeysChanged \subseteq OwnKeys
           /\ Cardinality(KeysChanged) <= 1

\* read_file_lines_action stored the lines under 'a:1-2' next to the entries
\* that were there, and an earlier entry under the plain path is there too
C39_Witness ==
    /\ LastRan = "read_file_lines"
    /\ KeysChanged = {LinesKey(RelA, 1, 2)}
    /\ RelA \in KeysBefore
    /\ state.action_output # pre.state.action_output

\* the path the last edit_file was given names no file that can be read: there
\* is none, or it is a directory, or the path leaves the root or runs through
\* a file
NothingToRead == Target(call.file_path) \notin DOMAIN pre.files

\* C40 (edit never creates a file): edit_file on a path whose file does not
\* exist or cannot be read returns the error of the read, writes nothing and
\* leaves the files and the directories as they were: no file and no parent
\* directory is created.
C40_EditNeverCreates ==
    (call.op = "edit_file" /\ NothingToRead)
        => /\ ret = read_file(pre, ProjectRoot, call.file_path).ret
           /\ \E reading \in {<<" reading file ">>, <<" reading file: File not found at ">>} :
                 StartsWith(ret, ERROR \o reading)
           /\ files = pre.files
           /\ dirs = pre.dirs
           /\ opened = {}

\* after a write, edit_file was asked for a file in a directory that does not
\* exist and returned the error of the read
C40_Witness ==
    /\ call.op = "edit_file"
    /\ call.file_path = RelNew
    /\ NothingToRead
    /\ pre.call.op = "write_file"
    /\ DirName(Target(RelNew)) \notin dirs
    /\ StartsWith(ret, ERROR \o <<" reading file: File not found at ">>)

====
